---- MODULE Spec2Model ----
(***************************************************************************)
(* Recovery-debt engine of recovr: workout load scoring, heart-rate zone   *)
(* classification and the recovery-debt update of                          *)
(* core/logic/recovery.ts (both revisions kept in the repository),         *)
(* core/logic/load.ts and the EPOC recovery estimate of core/logic/epoc.ts.*)
(*                                                                         *)
(* Numbers are JavaScript doubles in the code.  The model computes with    *)
(* the exact rationals those doubles stand for: a number is a record       *)
(* [num, den] in lowest terms with den > 0.  Timestamps are ISO-8601       *)
(* strings in the code, parsed with new Date(..).getTime(); the model      *)
(* keeps the millisecond count those strings denote.                       *)
(***************************************************************************)
EXTENDS Integers, Sequences, FiniteSets, TLC

VARIABLES
    rev,                \* which revision of recovery.ts is linked in
    dailyMetrics,       \* the dailyMetrics argument of the latest update
    call,               \* the other arguments of the latest update, its clock reading
                        \* and the baselines it computed
    lastRecoveryState,  \* appData.lastRecoveryState: the latest returned snapshot
    calls,              \* number of updates made so far (bounds the run)
    samples,            \* calculateZoneMinutesFromSamples: samples argument
    hrMax,              \* calculateZoneMinutesFromSamples: hrMax argument
    zoneConfig,         \* calculateZoneMinutesFromSamples: zoneConfig argument
    zones,              \* calculateZoneMinutesFromSamples: returned zone minutes
    scoreLog,           \* calculateWorkoutLoadFromInputs calls made: {[in, out]}
    epocIn,             \* the function of epoc.ts to call and its arguments: [fn, ...]
    epocOut,            \* what that call returned, Undefined before the call
    heap,               \* the JavaScript objects alive: heap[ref] is the object at ref
    heapCall,           \* the latest call traced on the heap: [fn, args, before, result]
    twin,               \* a second caller given the same update on another previous
                        \* state: [previousState, returned]
    isLoading,          \* useRecoveryState: the isLoading state
    error,              \* useRecoveryState: the error state, Undefined for null
    isHealthKitAvailable, \* useRecoveryState: the isHealthKitAvailable state
    summaries,          \* appData.workoutSummaries
    clock,              \* what new Date() reads, in ms
    healthKit,          \* the health store: [moduleAvailable, workouts]
    invocation,         \* the processNewData invocations: where each stands, the state
                        \* its closure holds, what it has fetched
    refreshes,          \* processNewData calls made so far (bounds the run)
    included            \* for the stored snapshot: how often each workout's load has
                        \* entered its debt

recoveryVars == <<dailyMetrics, call, lastRecoveryState, calls>>
zoneVars == <<samples, hrMax, zoneConfig, zones>>
loadVars == <<scoreLog>>
epocVars == <<epocIn, epocOut>>
heapVars == <<heap, heapCall>>
twinVars == <<twin>>
hookVars == <<isLoading, error, isHealthKitAvailable, summaries, clock, healthKit,
              invocation, refreshes, included>>
vars == <<rev, dailyMetrics, call, lastRecoveryState, calls,
          samples, hrMax, zoneConfig, zones, scoreLog, epocIn, epocOut,
          heap, heapCall, twin,
          isLoading, error, isHealthKitAvailable, summaries, clock, healthKit,
          invocation, refreshes, included>>

(***************************************************************************)
(* Bounds of the model.                                                    *)
(***************************************************************************)
MaxCalls == 2         \* updates chained in one run
MaxSamples == 2       \* longest heart-rate sample list explored
MaxLog == 4           \* scoring calls recorded in one run
MaxScored == 1        \* scoring calls in one run of strategy selection
MaxWorkouts == 2      \* longest workout list given to the recovery estimate
MaxRefreshes == 2     \* processNewData calls in one run of the hook
MaxClockHours == 1    \* how far the clock runs ahead of the hook's first snapshot

(***************************************************************************)
(* Exact arithmetic on rationals.                                          *)
(***************************************************************************)
Abs(x) == IF x < 0 THEN -x ELSE x

RECURSIVE GCD(_, _)
GCD(a, b) == IF b = 0 THEN a ELSE GCD(b, a % b)

Q(n, d) ==
    LET s == IF d < 0 THEN -1 ELSE 1
        g == GCD(Abs(n), Abs(d))
    IN  [num |-> (s * n) \div g, den |-> (s * d) \div g]

N(n) == [num |-> n, den |-> 1]

QAdd(a, b) ==
    LET l == (a.den \div GCD(a.den, b.den)) * b.den
    IN  Q(a.num * (l \div a.den) + b.num * (l \div b.den), l)

QNeg(a) == [num |-> -a.num, den |-> a.den]

QSub(a, b) == QAdd(a, QNeg(b))

QMul(a, b) ==
    LET g1 == GCD(Abs(a.num), b.den)
        g2 == GCD(Abs(b.num), a.den)
    IN  Q((a.num \div g1) * (b.num \div g2), (a.den \div g2) * (b.den \div g1))

QDiv(a, b) ==
    QMul(a, IF b.num < 0 THEN [num |-> -b.den, den |-> -b.num]
                         ELSE [num |-> b.den, den |-> b.num])

QLt(a, b) == QSub(a, b).num < 0
QLe(a, b) == QSub(a, b).num <= 0
QGt(a, b) == QLt(b, a)
QGe(a, b) == QLe(b, a)
QMax(a, b) == IF QGe(a, b) THEN a ELSE b
QMin(a, b) == IF QLe(a, b) THEN a ELSE b

\* floor of a non-negative rational
QFloor(a) == a.num \div a.den

(***************************************************************************)
(* Optional values: Undefined is <<>>, a present value v is <<v>>.         *)
(***************************************************************************)
Undefined == <<>>
Some(v) == <<v>>
IsDefined(o) == o # Undefined
Get(o) == o[1]

(***************************************************************************)
(* Sequences of numbers.                                                   *)
(***************************************************************************)
\* [...arr].sort((a, b) => a - b)
SortAscending(s) == SortSeq(s, LAMBDA a, b : a < b)

\* arr.slice(-n)
SliceLast(s, n) == IF Len(s) > n THEN SubSeq(s, Len(s) - n + 1, Len(s)) ELSE s

\* arr.map(field).filter(Boolean): the present, non-zero values of one signal
Truthy(ms, field) ==
    LET truthy(m) == IsDefined(m[field]) /\ Get(m[field]) # 0
        kept == SelectSeq(ms, truthy)
    IN  [i \in 1..Len(kept) |-> Get(kept[i][field])]

\* the three signals of a daily entry
SignalNames == {"sleepInMinutes", "hrvSdn", "restingHeartRate"}

\* latestMetrics?.field, as a truthiness test
HasTruthy(ms, field) ==
    /\ Len(ms) > 0
    /\ IsDefined(ms[Len(ms)][field])
    /\ Get(ms[Len(ms)][field]) # 0

Latest(ms, field) == N(Get(ms[Len(ms)][field]))

\* new Date(ms): the time value of a non-negative number of milliseconds,
\* truncated to a whole millisecond.  q, r, d: quotient so far, remainder, divisor.
RECURSIVE FloorScale(_, _, _, _)
FloorScale(q, r, d, fs) ==
    IF fs = <<>> THEN q
    ELSE FloorScale(q * Head(fs) + (r * Head(fs)) \div d, (r * Head(fs)) % d, d, Tail(fs))

\* Math.trunc(hours * 60 * 60 * 1000) for hours >= 0
HoursToMs(h) == FloorScale(h.num \div h.den, h.num % h.den, h.den, <<60, 60, 10, 10, 10>>)

MsPerHour == 1000 * 60 * 60

(***************************************************************************)
(* core/logic/recovery.ts, current revision.                               *)
(***************************************************************************)
HR_ZONE_WEIGHTS == [z1 |-> N(1), z2 |-> N(2), z3 |-> N(3), z4 |-> N(5), z5 |-> N(8)]

BASE_RECOVERY_RATE_PER_HOUR == N(6)

MODIFIERS ==
    [SLEEP |-> [GOOD_THRESHOLD_RATIO |-> N(1), POOR_THRESHOLD_RATIO |-> Q(8, 10),
                GOOD_MODIFIER |-> Q(115, 100), POOR_MODIFIER |-> Q(85, 100)],
     HRV   |-> [HIGH_THRESHOLD_RATIO |-> Q(11, 10), LOW_THRESHOLD_RATIO |-> Q(9, 10),
                HIGH_MODIFIER |-> Q(11, 10), LOW_MODIFIER |-> Q(9, 10)],
     RHR   |-> [HIGH_THRESHOLD_RATIO |-> Q(105, 100), LOW_THRESHOLD_RATIO |-> Q(95, 100),
                HIGH_MODIFIER |-> Q(9, 10), LOW_MODIFIER |-> Q(105, 100),
                NORMAL_MODIFIER |-> N(1)]]

LEARNING_PHASE_DAYS == 7
LEARNING_PHASE_RECOVERY_MODIFIER == Q(115, 100)

DEBT_THRESHOLDS == [RED |-> N(25), YELLOW |-> N(10)]

\* mutant: the total capped at 300 load points
calculateWorkoutLoad_capped(zoneMinutes) ==
    LET t1 == QAdd(N(0), QMul(zoneMinutes.z1, HR_ZONE_WEIGHTS.z1))
        t2 == QAdd(t1, QMul(zoneMinutes.z2, HR_ZONE_WEIGHTS.z2))
        t3 == QAdd(t2, QMul(zoneMinutes.z3, HR_ZONE_WEIGHTS.z3))
        t4 == QAdd(t3, QMul(zoneMinutes.z4, HR_ZONE_WEIGHTS.z4))
        t5 == QAdd(t4, QMul(zoneMinutes.z5, HR_ZONE_WEIGHTS.z5))
    IN  QMin(t5, N(300))

calculateWorkoutLoad(zoneMinutes) ==
    LET t1 == QAdd(N(0), QMul(zoneMinutes.z1, HR_ZONE_WEIGHTS.z1))
        t2 == QAdd(t1, QMul(zoneMinutes.z2, HR_ZONE_WEIGHTS.z2))
        t3 == QAdd(t2, QMul(zoneMinutes.z3, HR_ZONE_WEIGHTS.z3))
        t4 == QAdd(t3, QMul(zoneMinutes.z4, HR_ZONE_WEIGHTS.z4))
        t5 == QAdd(t4, QMul(zoneMinutes.z5, HR_ZONE_WEIGHTS.z5))
    IN  t5

median(arr) ==
    IF Len(arr) = 0 THEN N(0)
    ELSE LET sorted == SortAscending(arr)
             mid == Len(sorted) \div 2      \* 0-based index of the code
         IN  IF Len(sorted) % 2 # 0 THEN N(sorted[mid + 1])
             ELSE Q(sorted[mid] + sorted[mid + 1], 2)

\* mutant: the elapsed time taken without the floor at zero
hoursPassed_signed(previousState, now) == Q(now - previousState.timestamp, MsPerHour)

\* mutant: a zero elapsed time replaced by one hour (the "|| 1" of the sample minutes)
hoursPassed_orOne(previousState, now) ==
    LET h == QMax(N(0), Q(now - previousState.timestamp, MsPerHour))
    IN  IF h.num = 0 THEN N(1) ELSE h

\* step 1: hours since the previous snapshot
hoursPassed(previousState, now) ==
    QMax(N(0), Q(now - previousState.timestamp, MsPerHour))

\* mutant: the baseline taken over the whole history
baseline_wholeHistory(ms, field) == median(Truthy(ms, field))

\* step 2: the baseline of one signal, the median of its present, non-zero values
\* over the last 28 entries
baseline(ms, field) == median(Truthy(SliceLast(ms, 28), field))

\* mutant: sleep at exactly 80 % of the baseline counted as poor
sleepModifier_poorAtEighty(ms) ==
    LET sleepBaseline == baseline(ms, "sleepInMinutes")
    IN  IF HasTruthy(ms, "sleepInMinutes") /\ QGt(sleepBaseline, N(0))
        THEN IF QGe(Latest(ms, "sleepInMinutes"),
                    QMul(sleepBaseline, MODIFIERS.SLEEP.GOOD_THRESHOLD_RATIO))
             THEN MODIFIERS.SLEEP.GOOD_MODIFIER
             ELSE IF QLe(Latest(ms, "sleepInMinutes"),
                         QMul(sleepBaseline, MODIFIERS.SLEEP.POOR_THRESHOLD_RATIO))
             THEN MODIFIERS.SLEEP.POOR_MODIFIER
             ELSE N(1)
        ELSE N(1)

\* step 3: the three modifiers from the latest entry against its baselines
sleepModifier(ms) ==
    LET sleepBaseline == baseline(ms, "sleepInMinutes")
    IN  IF HasTruthy(ms, "sleepInMinutes") /\ QGt(sleepBaseline, N(0))
        THEN IF QGe(Latest(ms, "sleepInMinutes"),
                    QMul(sleepBaseline, MODIFIERS.SLEEP.GOOD_THRESHOLD_RATIO))
             THEN MODIFIERS.SLEEP.GOOD_MODIFIER
             ELSE IF QLt(Latest(ms, "sleepInMinutes"),
                         QMul(sleepBaseline, MODIFIERS.SLEEP.POOR_THRESHOLD_RATIO))
             THEN MODIFIERS.SLEEP.POOR_MODIFIER
             ELSE N(1)
        ELSE N(1)

hrvModifier(ms) ==
    LET hrvBaseline == baseline(ms, "hrvSdn")
    IN  IF HasTruthy(ms, "hrvSdn") /\ QGt(hrvBaseline, N(0))
        THEN IF QGt(Latest(ms, "hrvSdn"),
                    QMul(hrvBaseline, MODIFIERS.HRV.HIGH_THRESHOLD_RATIO))
             THEN MODIFIERS.HRV.HIGH_MODIFIER
             ELSE IF QLt(Latest(ms, "hrvSdn"),
                         QMul(hrvBaseline, MODIFIERS.HRV.LOW_THRESHOLD_RATIO))
             THEN MODIFIERS.HRV.LOW_MODIFIER
             ELSE N(1)
        ELSE N(1)

rhrModifier(ms) ==
    LET rhrBaseline == baseline(ms, "restingHeartRate")
    IN  IF HasTruthy(ms, "restingHeartRate") /\ QGt(rhrBaseline, N(0))
        THEN IF QGt(Latest(ms, "restingHeartRate"),
                    QMul(rhrBaseline, MODIFIERS.RHR.HIGH_THRESHOLD_RATIO))
             THEN MODIFIERS.RHR.HIGH_MODIFIER
             ELSE IF QLt(Latest(ms, "restingHeartRate"),
                         QMul(rhrBaseline, MODIFIERS.RHR.LOW_THRESHOLD_RATIO))
             THEN MODIFIERS.RHR.LOW_MODIFIER
             ELSE N(1)
        ELSE N(1)

\* mutant: the boost still applied on the seventh day
learningModifier_throughDaySeven(ms) ==
    IF Len(ms) > 0 /\ Len(ms) <= LEARNING_PHASE_DAYS
    THEN LEARNING_PHASE_RECOVERY_MODIFIER ELSE N(1)

\* step 4: the learning-phase boost
learningModifier(ms) ==
    IF Len(ms) > 0 /\ Len(ms) < LEARNING_PHASE_DAYS
    THEN LEARNING_PHASE_RECOVERY_MODIFIER ELSE N(1)

\* mutant: a product of modifiers below 1 read as debt gained per hour
effectiveRecoveryRate_slowIsLoss(sleepMod, hrvMod, rhrMod, learningMod) ==
    LET product == QMul(QMul(QMul(sleepMod, hrvMod), rhrMod), learningMod)
    IN  IF QLt(product, N(1))
        THEN QMul(BASE_RECOVERY_RATE_PER_HOUR, QSub(product, N(1)))
        ELSE QMul(BASE_RECOVERY_RATE_PER_HOUR, product)

effectiveRecoveryRate(sleepMod, hrvMod, rhrMod, learningMod) ==
    QMul(QMul(QMul(QMul(BASE_RECOVERY_RATE_PER_HOUR, sleepMod), hrvMod), rhrMod),
         learningMod)

\* mutant: a previous state marked green taken as free of debt
currentDebt_greenIsZero(previousState, rate, newWorkout, now) ==
    LET recoveredDebt == QMul(hoursPassed(previousState, now), rate)
        carried == IF previousState.status = "green" THEN N(0)
                   ELSE previousState.debtScore
        decayed == QMax(N(0), QSub(carried, recoveredDebt))
    IN  IF IsDefined(newWorkout) THEN QAdd(decayed, Get(newWorkout).loadScore)
        ELSE decayed

\* mutant: the decay not floored at zero
currentDebt_noFloor(previousState, rate, newWorkout, now) ==
    LET recoveredDebt == QMul(hoursPassed(previousState, now), rate)
        decayed == QSub(previousState.debtScore, recoveredDebt)
    IN  IF IsDefined(newWorkout) THEN QAdd(decayed, Get(newWorkout).loadScore)
        ELSE decayed

\* mutant: the workout's load added before the decay
currentDebt_loadFirst(previousState, rate, newWorkout, now) ==
    LET recoveredDebt == QMul(hoursPassed(previousState, now), rate)
        loaded == IF IsDefined(newWorkout)
                  THEN QAdd(previousState.debtScore, Get(newWorkout).loadScore)
                  ELSE previousState.debtScore
    IN  QMax(N(0), QSub(loaded, recoveredDebt))

\* steps 4-5: decay floored at zero, then the workout's load on top
currentDebt(previousState, rate, newWorkout, now) ==
    LET recoveredDebt == QMul(hoursPassed(previousState, now), rate)
        decayed == QMax(N(0), QSub(previousState.debtScore, recoveredDebt))
    IN  IF IsDefined(newWorkout) THEN QAdd(decayed, Get(newWorkout).loadScore)
        ELSE decayed

\* mutant: the hours computed from the whole debt, as the earlier revision does
recoveryHoursRemaining_wholeDebt(debt, rate) == QDiv(debt, rate)

\* step 6
recoveryHoursRemaining(debt, rate) ==
    LET hardTrainingDebt == QMax(N(0), QSub(debt, DEBT_THRESHOLDS.YELLOW))
    IN  QDiv(hardTrainingDebt, rate)

\* mutant: the hours scaled to seconds, not milliseconds
readyDate_inSeconds(hours, now) ==
    IF QGt(hours, N(0)) THEN Some(now + QFloor(QMul(hours, N(3600)))) ELSE Undefined

\* readyForHardTrainingAt: new Date(now.getTime() + hours * 60 * 60 * 1000)
readyDate(hours, now) ==
    IF QGt(hours, N(0)) THEN Some(now + HoursToMs(hours)) ELSE Undefined

\* step 7
statusOf(debt) ==
    IF QLe(debt, DEBT_THRESHOLDS.YELLOW) THEN "green"
    ELSE IF QLe(debt, DEBT_THRESHOLDS.RED) THEN "yellow"
    ELSE "red"

calculateNewRecoveryState(previousState, ms, newWorkout, now) ==
    LET sleepMod == sleepModifier(ms)
        hrvMod == hrvModifier(ms)
        rhrMod == rhrModifier(ms)
        learningMod == learningModifier(ms)
        rate == effectiveRecoveryRate(sleepMod, hrvMod, rhrMod, learningMod)
        debt == currentDebt(previousState, rate, newWorkout, now)
        hours == recoveryHoursRemaining(debt, rate)
    IN  [timestamp |-> now,
         debtScore |-> debt,
         recoveryHoursRemaining |-> hours,
         readyForHardTrainingAt |-> readyDate(hours, now),
         status |-> statusOf(debt),
         explanationBreakdown |-> Some(
             [lastWorkoutLoad |-> IF IsDefined(newWorkout)
                                  THEN Some(Get(newWorkout).loadScore) ELSE Undefined,
              sleepModifier |-> sleepMod,
              hrvModifier |-> hrvMod,
              rhrModifier |-> rhrMod,
              learningModifier |-> Some(learningMod)])]

(***************************************************************************)
(* core/logic/recovery.ts, earlier revision (src/unnamed/part_002).        *)
(***************************************************************************)
HR_ZONE_WEIGHTS_p2 ==
    [z1 |-> N(1), z2 |-> Q(15, 10), z3 |-> Q(25, 10), z4 |-> N(4), z5 |-> N(7)]

BASE_RECOVERY_RATE_PER_HOUR_p2 == N(10)

MODIFIERS_p2 ==
    [SLEEP |-> [GOOD_THRESHOLD_RATIO |-> Q(9, 10),
                GOOD_MODIFIER |-> Q(115, 100), POOR_MODIFIER |-> Q(85, 100)],
     HRV   |-> [HIGH_THRESHOLD_RATIO |-> Q(105, 100), LOW_THRESHOLD_RATIO |-> Q(95, 100),
                HIGH_MODIFIER |-> Q(11, 10), LOW_MODIFIER |-> Q(9, 10)],
     RHR   |-> [HIGH_THRESHOLD_RATIO |-> Q(105, 100),
                HIGH_MODIFIER |-> Q(95, 100), NORMAL_MODIFIER |-> N(1)]]

DEBT_THRESHOLDS_p2 == [RED |-> N(80), YELLOW |-> N(20)]

\* mutant: the z5 minutes weighted with the z4 weight
calculateWorkoutLoad_p2_z4Twice(zoneMinutes) ==
    LET t1 == QAdd(N(0), QMul(zoneMinutes.z1, HR_ZONE_WEIGHTS_p2.z1))
        t2 == QAdd(t1, QMul(zoneMinutes.z2, HR_ZONE_WEIGHTS_p2.z2))
        t3 == QAdd(t2, QMul(zoneMinutes.z3, HR_ZONE_WEIGHTS_p2.z3))
        t4 == QAdd(t3, QMul(zoneMinutes.z4, HR_ZONE_WEIGHTS_p2.z4))
        t5 == QAdd(t4, QMul(zoneMinutes.z5, HR_ZONE_WEIGHTS_p2.z4))
    IN  t5

calculateWorkoutLoad_p2(zoneMinutes) ==
    LET t1 == QAdd(N(0), QMul(zoneMinutes.z1, HR_ZONE_WEIGHTS_p2.z1))
        t2 == QAdd(t1, QMul(zoneMinutes.z2, HR_ZONE_WEIGHTS_p2.z2))
        t3 == QAdd(t2, QMul(zoneMinutes.z3, HR_ZONE_WEIGHTS_p2.z3))
        t4 == QAdd(t3, QMul(zoneMinutes.z4, HR_ZONE_WEIGHTS_p2.z4))
        t5 == QAdd(t4, QMul(zoneMinutes.z5, HR_ZONE_WEIGHTS_p2.z5))
    IN  t5

sleepModifier_p2(ms) ==
    LET sleepBaseline == baseline(ms, "sleepInMinutes")
    IN  IF HasTruthy(ms, "sleepInMinutes") /\ QGt(sleepBaseline, N(0))
        THEN IF QGe(Latest(ms, "sleepInMinutes"),
                    QMul(sleepBaseline, MODIFIERS_p2.SLEEP.GOOD_THRESHOLD_RATIO))
             THEN MODIFIERS_p2.SLEEP.GOOD_MODIFIER
             ELSE MODIFIERS_p2.SLEEP.POOR_MODIFIER
        ELSE N(1)

hrvModifier_p2(ms) ==
    LET hrvBaseline == baseline(ms, "hrvSdn")
    IN  IF HasTruthy(ms, "hrvSdn") /\ QGt(hrvBaseline, N(0))
        THEN IF QGt(Latest(ms, "hrvSdn"),
                    QMul(hrvBaseline, MODIFIERS_p2.HRV.HIGH_THRESHOLD_RATIO))
             THEN MODIFIERS_p2.HRV.HIGH_MODIFIER
             ELSE IF QLt(Latest(ms, "hrvSdn"),
                         QMul(hrvBaseline, MODIFIERS_p2.HRV.LOW_THRESHOLD_RATIO))
             THEN MODIFIERS_p2.HRV.LOW_MODIFIER
             ELSE N(1)
        ELSE N(1)

rhrModifier_p2(ms) ==
    LET rhrBaseline == baseline(ms, "restingHeartRate")
    IN  IF HasTruthy(ms, "restingHeartRate") /\ QGt(rhrBaseline, N(0))
        THEN IF QGt(Latest(ms, "restingHeartRate"),
                    QMul(rhrBaseline, MODIFIERS_p2.RHR.HIGH_THRESHOLD_RATIO))
             THEN MODIFIERS_p2.RHR.HIGH_MODIFIER
             ELSE N(1)
        ELSE N(1)

\* mutant: the base rate left out of the product
effectiveRecoveryRate_p2_noBase(sleepMod, hrvMod, rhrMod) ==
    QMul(QMul(sleepMod, hrvMod), rhrMod)

effectiveRecoveryRate_p2(sleepMod, hrvMod, rhrMod) ==
    QMul(QMul(QMul(BASE_RECOVERY_RATE_PER_HOUR_p2, sleepMod), hrvMod), rhrMod)

currentDebt_p2(previousState, rate, newWorkout, now) ==
    LET recoveredDebt == QMul(hoursPassed(previousState, now), rate)
        decayed == QMax(N(0), QSub(previousState.debtScore, recoveredDebt))
    IN  IF IsDefined(newWorkout) THEN QAdd(decayed, Get(newWorkout).loadScore)
        ELSE decayed

recoveryHoursRemaining_p2(debt, rate) == QDiv(debt, rate)

\* mutant: the thresholds compared strictly
statusOf_p2_strict(debt) ==
    IF QLt(debt, DEBT_THRESHOLDS_p2.YELLOW) THEN "green"
    ELSE IF QLt(debt, DEBT_THRESHOLDS_p2.RED) THEN "yellow"
    ELSE "red"

statusOf_p2(debt) ==
    IF QLe(debt, DEBT_THRESHOLDS_p2.YELLOW) THEN "green"
    ELSE IF QLe(debt, DEBT_THRESHOLDS_p2.RED) THEN "yellow"
    ELSE "red"

calculateNewRecoveryState_p2(previousState, ms, newWorkout, now) ==
    LET sleepMod == sleepModifier_p2(ms)
        hrvMod == hrvModifier_p2(ms)
        rhrMod == rhrModifier_p2(ms)
        rate == effectiveRecoveryRate_p2(sleepMod, hrvMod, rhrMod)
        debt == currentDebt_p2(previousState, rate, newWorkout, now)
        hours == recoveryHoursRemaining_p2(debt, rate)
    IN  [timestamp |-> now,
         debtScore |-> debt,
         recoveryHoursRemaining |-> hours,
         readyForHardTrainingAt |-> readyDate(hours, now),
         status |-> statusOf_p2(debt),
         explanationBreakdown |-> Some(
             [lastWorkoutLoad |-> IF IsDefined(newWorkout)
                                  THEN Some(Get(newWorkout).loadScore) ELSE Undefined,
              sleepModifier |-> sleepMod,
              hrvModifier |-> hrvMod,
              rhrModifier |-> rhrMod,
              learningModifier |-> Undefined])]

(***************************************************************************)
(* The two revisions of recovery.ts, selected by rev.                      *)
(***************************************************************************)
Revisions == {"recovery.ts", "part_002"}

LinkedWorkoutLoad(r, zoneMinutes) ==
    IF r = "recovery.ts" THEN calculateWorkoutLoad(zoneMinutes)
    ELSE calculateWorkoutLoad_p2(zoneMinutes)

LinkedNewRecoveryState(r, previousState, ms, newWorkout, now) ==
    IF r = "recovery.ts" THEN calculateNewRecoveryState(previousState, ms, newWorkout, now)
    ELSE calculateNewRecoveryState_p2(previousState, ms, newWorkout, now)

\* the effectiveRecoveryRate the update computes from the history
LinkedEffectiveRate(r, ms) ==
    IF r = "recovery.ts"
    THEN effectiveRecoveryRate(sleepModifier(ms), hrvModifier(ms), rhrModifier(ms),
                               learningModifier(ms))
    ELSE effectiveRecoveryRate_p2(sleepModifier_p2(ms), hrvModifier_p2(ms),
                                  rhrModifier_p2(ms))

LinkedBaseRate(r) ==
    IF r = "recovery.ts" THEN BASE_RECOVERY_RATE_PER_HOUR ELSE BASE_RECOVERY_RATE_PER_HOUR_p2

LinkedThresholds(r) == IF r = "recovery.ts" THEN DEBT_THRESHOLDS ELSE DEBT_THRESHOLDS_p2

LinkedWeights(r) == IF r = "recovery.ts" THEN HR_ZONE_WEIGHTS ELSE HR_ZONE_WEIGHTS_p2

(***************************************************************************)
(* core/logic/load.ts (src/unnamed/part_003, lines 1-215).                 *)
(***************************************************************************)
ZoneNames == <<"z1", "z2", "z3", "z4", "z5">>

DEFAULT_ZONE_PERCENTAGES ==
    [z1 |-> <<Q(5, 10), Q(6, 10)>>,
     z2 |-> <<Q(6, 10), Q(7, 10)>>,
     z3 |-> <<Q(7, 10), Q(8, 10)>>,
     z4 |-> <<Q(8, 10), Q(9, 10)>>,
     z5 |-> <<Q(9, 10), N(1)>>]

SPORT_MULTIPLIERS ==
    [running |-> N(1), cycling |-> Q(9, 10), swimming |-> Q(95, 100),
     strength |-> Q(7, 10), hiit |-> Q(11, 10), default |-> Q(85, 100)]

DEFAULT_RPE == 5

createEmptyZones == [z1 |-> N(0), z2 |-> N(0), z3 |-> N(0), z4 |-> N(0), z5 |-> N(0)]

\* mutant: the default zones start at their upper percentages
resolveZoneConfig_fromCeilings(max, config) ==
    IF IsDefined(config) THEN Get(config)
    ELSE [z \in DOMAIN DEFAULT_ZONE_PERCENTAGES |->
            <<QMul(N(max), DEFAULT_ZONE_PERCENTAGES[z][2]),
              QMul(N(max), DEFAULT_ZONE_PERCENTAGES[z][2])>>]

resolveZoneConfig(max, config) ==
    IF IsDefined(config) THEN Get(config)
    ELSE [z \in DOMAIN DEFAULT_ZONE_PERCENTAGES |->
            <<QMul(N(max), DEFAULT_ZONE_PERCENTAGES[z][1]),
              QMul(N(max), DEFAULT_ZONE_PERCENTAGES[z][2])>>]

\* String.prototype.toLowerCase on the workout types the model feeds in
toLowerCase(str) ==
    CASE str = "Running" -> "running"
      [] str = "RUNNING" -> "running"
      [] str = "Cycling" -> "cycling"
      [] str = "HIIT" -> "hiit"
      [] str = "Yoga" -> "yoga"
      [] str = "Constructor" -> "constructor"
      [] str = "Walking" -> "walking"
      [] OTHER -> str

\* a value that is not a number: what arithmetic on it gives
NaN == [num |-> 0, den |-> 0]

\* the lower-case keys every object literal inherits from Object.prototype
InheritedKeys == {"constructor", "__proto__"}

\* SPORT_MULTIPLIERS[key] ?? SPORT_MULTIPLIERS.default: the table is an object
\* literal, so an inherited key finds a function or an object, which is not
\* nullish and is kept; as a factor it is NaN
resolveSportMultiplier(workoutType) ==
    IF ~IsDefined(workoutType) \/ Get(workoutType) = "" THEN SPORT_MULTIPLIERS.default
    ELSE LET key == toLowerCase(Get(workoutType))
         IN  IF key \in DOMAIN SPORT_MULTIPLIERS THEN SPORT_MULTIPLIERS[key]
             ELSE IF key \in InheritedKeys THEN NaN
             ELSE SPORT_MULTIPLIERS.default

\* Math.max(0, (end - start) / (1000 * 60)) || 1
sampleMinutes(sample) ==
    LET m == QMax(N(0), Q(sample.endDate - sample.startDate, 1000 * 60))
    IN  IF m.num = 0 THEN N(1) ELSE m

\* mutant: the z1 floor compared strictly
sampleZone_strictZ1(sample, resolvedZones) ==
    LET bpm == N(sample.value)
    IN  IF QGe(bpm, resolvedZones.z5[1]) THEN "z5"
        ELSE IF QGe(bpm, resolvedZones.z4[1]) THEN "z4"
        ELSE IF QGe(bpm, resolvedZones.z3[1]) THEN "z3"
        ELSE IF QGe(bpm, resolvedZones.z2[1]) THEN "z2"
        ELSE IF QGt(bpm, resolvedZones.z1[1]) THEN "z1"
        ELSE "none"

\* the zone one sample is counted in: the first floor, from z5 down, that its
\* bpm reaches; "none" below every floor
sampleZone(sample, resolvedZones) ==
    LET bpm == N(sample.value)
    IN  IF QGe(bpm, resolvedZones.z5[1]) THEN "z5"
        ELSE IF QGe(bpm, resolvedZones.z4[1]) THEN "z4"
        ELSE IF QGe(bpm, resolvedZones.z3[1]) THEN "z3"
        ELSE IF QGe(bpm, resolvedZones.z2[1]) THEN "z2"
        ELSE IF QGe(bpm, resolvedZones.z1[1]) THEN "z1"
        ELSE "none"

\* samples.forEach(...), accumulating into zones
RECURSIVE forEachSample(_, _, _)
forEachSample(ss, resolvedZones, acc) ==
    IF ss = <<>> THEN acc
    ELSE LET z == sampleZone(Head(ss), resolvedZones)
             next == IF z = "none" THEN acc
                     ELSE [acc EXCEPT ![z] = QAdd(@, sampleMinutes(Head(ss)))]
         IN  forEachSample(Tail(ss), resolvedZones, next)

\* mutant: the guard on hrMax left out
calculateZoneMinutesFromSamples_noMaxGuard(ss, max, config) ==
    IF Len(ss) = 0 THEN createEmptyZones
    ELSE forEachSample(ss, resolveZoneConfig(max, config), createEmptyZones)

calculateZoneMinutesFromSamples(ss, max, config) ==
    IF Len(ss) = 0 \/ max <= 0 THEN createEmptyZones
    ELSE forEachSample(ss, resolveZoneConfig(max, config), createEmptyZones)

\* Math.exp(x) for x >= 0, cut to the first three terms of its series: a positive
\* rational below the true value
expSeries(x) == QAdd(QAdd(N(1), x), QDiv(QMul(x, x), N(2)))

\* mutant: the intensity not clamped to [0, 1]
calculateTrimpLoad_unclamped(durationMinutes, avgHeartRate, restingHeartRate, max, sex) ==
    LET hrReserve == max - restingHeartRate
    IN  IF durationMinutes.num <= 0 \/ hrReserve <= 0 THEN N(0)
        ELSE LET intensity == Q(avgHeartRate - restingHeartRate, hrReserve)
                 weighting ==
                     IF sex = Some("female")
                     THEN QMul(Q(86, 100), expSeries(QMul(Q(167, 100), intensity)))
                     ELSE QMul(Q(64, 100), expSeries(QMul(Q(192, 100), intensity)))
             IN  QMul(QMul(durationMinutes, intensity), weighting)

calculateTrimpLoad(durationMinutes, avgHeartRate, restingHeartRate, max, sex) ==
    LET hrReserve == max - restingHeartRate
    IN  IF durationMinutes.num <= 0 \/ hrReserve <= 0 THEN N(0)
        ELSE LET intensity ==
                     QMin(N(1), QMax(N(0), Q(avgHeartRate - restingHeartRate, hrReserve)))
                 weighting ==
                     IF sex = Some("female")
                     THEN QMul(Q(86, 100), expSeries(QMul(Q(167, 100), intensity)))
                     ELSE QMul(Q(64, 100), expSeries(QMul(Q(192, 100), intensity)))
             IN  QMul(QMul(durationMinutes, intensity), weighting)

calculateRpeLoad(durationMinutes, rpe, workoutType) ==
    IF durationMinutes.num <= 0 THEN N(0)
    ELSE LET multiplier == resolveSportMultiplier(workoutType)
         IN  IF multiplier = NaN THEN NaN
             ELSE QMul(QMul(QMul(durationMinutes, Q(rpe, 10)), N(10)), multiplier)

\* mutant: TRIMP tried before the heart-rate samples
calculateWorkoutLoadFromInputs_trimpFirst(r, inputs) ==
    IF IsDefined(inputs.zoneMinutes)
    THEN [loadScore |-> LinkedWorkoutLoad(r, Get(inputs.zoneMinutes)),
          zoneMinutes |-> Get(inputs.zoneMinutes),
          method |-> "zones"]
    ELSE IF IsDefined(inputs.avgHeartRate) /\ IsDefined(inputs.restingHeartRate)
            /\ IsDefined(inputs.hrMax)
    THEN [loadScore |-> calculateTrimpLoad(inputs.durationMinutes,
                                           Get(inputs.avgHeartRate),
                                           Get(inputs.restingHeartRate),
                                           Get(inputs.hrMax), inputs.sex),
          zoneMinutes |-> createEmptyZones,
          method |-> "trimp"]
    ELSE IF IsDefined(inputs.heartRateSamples)
            /\ IsDefined(inputs.hrMax) /\ Get(inputs.hrMax) # 0
    THEN LET derivedZones ==
                 calculateZoneMinutesFromSamples(Get(inputs.heartRateSamples),
                                                 Get(inputs.hrMax), inputs.zoneConfig)
         IN  [loadScore |-> LinkedWorkoutLoad(r, derivedZones),
              zoneMinutes |-> derivedZones,
              method |-> "zones"]
    ELSE [loadScore |-> calculateRpeLoad(inputs.durationMinutes,
                                         IF IsDefined(inputs.rpe) THEN Get(inputs.rpe)
                                         ELSE DEFAULT_RPE,
                                         inputs.workoutType),
          zoneMinutes |-> createEmptyZones,
          method |-> "rpe"]

calculateWorkoutLoadFromInputs(r, inputs) ==
    IF IsDefined(inputs.zoneMinutes)
    THEN [loadScore |-> LinkedWorkoutLoad(r, Get(inputs.zoneMinutes)),
          zoneMinutes |-> Get(inputs.zoneMinutes),
          method |-> "zones"]
    ELSE IF IsDefined(inputs.heartRateSamples)
            /\ IsDefined(inputs.hrMax) /\ Get(inputs.hrMax) # 0
    THEN LET derivedZones ==
                 calculateZoneMinutesFromSamples(Get(inputs.heartRateSamples),
                                                 Get(inputs.hrMax), inputs.zoneConfig)
         IN  [loadScore |-> LinkedWorkoutLoad(r, derivedZones),
              zoneMinutes |-> derivedZones,
              method |-> "zones"]
    ELSE IF IsDefined(inputs.avgHeartRate) /\ IsDefined(inputs.restingHeartRate)
            /\ IsDefined(inputs.hrMax)
    THEN [loadScore |-> calculateTrimpLoad(inputs.durationMinutes,
                                           Get(inputs.avgHeartRate),
                                           Get(inputs.restingHeartRate),
                                           Get(inputs.hrMax), inputs.sex),
          zoneMinutes |-> createEmptyZones,
          method |-> "trimp"]
    ELSE [loadScore |-> calculateRpeLoad(inputs.durationMinutes,
                                         IF IsDefined(inputs.rpe) THEN Get(inputs.rpe)
                                         ELSE DEFAULT_RPE,
                                         inputs.workoutType),
          zoneMinutes |-> createEmptyZones,
          method |-> "rpe"]

(***************************************************************************)
(* core/logic/epoc.ts (src/unnamed/part_003, lines 217-403).               *)
(***************************************************************************)
DEFAULT_CONFIG == [a |-> Q(35, 10), fInt |-> N(1), vo2Max |-> N(40), k |-> Q(12, 10)]

ZONE_INTENSITIES ==
    [z1 |-> Q(55, 100), z2 |-> Q(65, 100), z3 |-> Q(75, 100), z4 |-> Q(85, 100),
     z5 |-> Q(95, 100)]

TYPE_INTENSITY ==
    [running |-> Q(75, 100), cycling |-> Q(7, 10), swimming |-> Q(72, 100),
     strength |-> Q(6, 10), hiit |-> Q(85, 100), walking |-> Q(55, 100),
     default |-> Q(65, 100)]

\* Number.isFinite: NaN is 0/0 and Infinity 1/0 in the model
Infinity == [num |-> 1, den |-> 0]
isFinite(x) == x.den # 0

clamp(value, min, max) == QMax(min, QMin(max, value))

median_epoc(values) ==
    IF Len(values) = 0 THEN N(0)
    ELSE LET sorted == SortAscending(values)
             mid == Len(sorted) \div 2
         IN  IF Len(sorted) % 2 # 0 THEN N(sorted[mid + 1])
             ELSE Q(sorted[mid] + sorted[mid + 1], 2)

\* the zone-weighted mean intensity, or the intensity the workout type names; the
\* table is an object literal, so an inherited key finds a value that is no number
estimateIntensityRatio(workout) ==
    LET zm == workout.zoneMinutes
        minutes == QAdd(QAdd(QAdd(QAdd(zm.z1, zm.z2), zm.z3), zm.z4), zm.z5)
    IN  IF QGt(minutes, N(0))
        THEN LET weighted ==
                     QAdd(QAdd(QAdd(QAdd(QMul(zm.z1, ZONE_INTENSITIES.z1),
                                         QMul(zm.z2, ZONE_INTENSITIES.z2)),
                                    QMul(zm.z3, ZONE_INTENSITIES.z3)),
                               QMul(zm.z4, ZONE_INTENSITIES.z4)),
                          QMul(zm.z5, ZONE_INTENSITIES.z5))
             IN  clamp(QDiv(weighted, minutes), Q(4, 10), N(1))
        ELSE LET key == IF IsDefined(workout.type) THEN toLowerCase(Get(workout.type))
                        ELSE "default"
             IN  IF key \in DOMAIN TYPE_INTENSITY THEN TYPE_INTENSITY[key]
                 ELSE IF key \in InheritedKeys THEN NaN
                 ELSE TYPE_INTENSITY.default

estimateEpocTotal(workout, config) ==
    IF ~isFinite(workout.durationInSeconds) THEN N(0)
    ELSE LET durationMinutes == QDiv(workout.durationInSeconds, N(60))
         IN  IF QLe(durationMinutes, N(0)) THEN N(0)
             ELSE LET intensityRatio == estimateIntensityRatio(workout)
                  IN  IF intensityRatio = NaN THEN NaN
                      ELSE QMul(durationMinutes,
                                QMul(config.fInt,
                                     expSeries(QMul(config.a, intensityRatio))))

estimateRecoveryHoursAdded(workout, config) ==
    LET epocTotal == estimateEpocTotal(workout, config)
    IN  IF QLe(config.vo2Max, N(0)) \/ QLe(config.k, N(0)) THEN N(0)
        ELSE IF epocTotal = NaN THEN NaN
        ELSE QDiv(epocTotal, QMul(config.vo2Max, config.k))

\* new Date(t) >= cutoff; a date string that does not parse is Undefined here and
\* compares false
notBefore(t, cutoff) == IsDefined(t) /\ Get(t) >= cutoff

\* a + b and Math.max(0, a) on numbers that may be NaN
plus(a, b) == IF a = NaN \/ b = NaN THEN NaN ELSE QAdd(a, b)
maxZero(a) == IF a = NaN THEN NaN ELSE QMax(N(0), a)

\* mutant: the remaining hours summed first and floored at zero once
RECURSIVE remainingSum_floorOnce(_, _, _, _, _, _)
remainingSum_floorOnce(ws, since, modifier, config, nowMs, sum) ==
    IF ws = <<>> THEN maxZero(sum)
    ELSE LET workout == Head(ws)
             added == estimateRecoveryHoursAdded(workout, config)
             hoursSince == QMax(N(0), Q(nowMs - Get(workout.endTime), MsPerHour))
             term == IF added = NaN THEN NaN ELSE QSub(added, QMul(hoursSince, modifier))
         IN  IF ~notBefore(workout.endTime, since)
             THEN remainingSum_floorOnce(Tail(ws), since, modifier, config, nowMs, sum)
             ELSE remainingSum_floorOnce(Tail(ws), since, modifier, config, nowMs,
                                         plus(sum, term))

\* .filter(w => new Date(w.endTime) >= since).reduce(..., sum): a workout the
\* filter keeps has a finite end time
RECURSIVE remainingSum(_, _, _, _, _, _)
remainingSum(ws, since, modifier, config, nowMs, sum) ==
    IF ws = <<>> THEN sum
    ELSE LET workout == Head(ws)
             added == estimateRecoveryHoursAdded(workout, config)
             hoursSince == QMax(N(0), Q(nowMs - Get(workout.endTime), MsPerHour))
             term == IF added = NaN THEN NaN
                     ELSE maxZero(QSub(added, QMul(hoursSince, modifier)))
         IN  IF ~notBefore(workout.endTime, since)
             THEN remainingSum(Tail(ws), since, modifier, config, nowMs, sum)
             ELSE remainingSum(Tail(ws), since, modifier, config, nowMs, plus(sum, term))

\* nowMs is Date.now() as read by the call
estimateRecoveryRemaining(workouts, since, modifier, config, nowMs) ==
    remainingSum(workouts, since, modifier, config, nowMs, N(0))

\* latest?.field ?? 0 on the last of the recent entries
latestOrZero(recentMetrics, field) ==
    IF Len(recentMetrics) = 0 THEN N(0)
    ELSE LET o == recentMetrics[Len(recentMetrics)][field]
         IN  IF IsDefined(o) THEN N(Get(o)) ELSE N(0)

sleepFactor(recentMetrics) ==
    LET sleepBaseline == median_epoc(Truthy(recentMetrics, "sleepInMinutes"))
        sleepMinutes == latestOrZero(recentMetrics, "sleepInMinutes")
    IN  IF QGt(sleepBaseline, N(0))
        THEN LET sleepScore == QMul(QDiv(sleepMinutes, sleepBaseline), N(100))
             IN  IF QGe(sleepScore, N(120)) THEN Q(15, 10)
                 ELSE IF QGe(sleepScore, N(100)) THEN Q(12, 10)
                 ELSE IF QLt(sleepScore, N(70)) THEN Q(5, 10)
                 ELSE N(1)
        ELSE N(1)

\* mutant: the HRV bands without their boundaries
hrvFactor_exclusive(recentMetrics) ==
    LET hrvBaseline == median_epoc(Truthy(recentMetrics, "hrvSdn"))
        hrv == latestOrZero(recentMetrics, "hrvSdn")
    IN  IF QGt(hrvBaseline, N(0))
        THEN IF QGt(hrv, QMul(hrvBaseline, Q(105, 100))) THEN Q(12, 10)
             ELSE IF QLt(hrv, QMul(hrvBaseline, Q(8, 10))) THEN Q(2, 10)
             ELSE N(1)
        ELSE N(1)

hrvFactor(recentMetrics) ==
    LET hrvBaseline == median_epoc(Truthy(recentMetrics, "hrvSdn"))
        hrv == latestOrZero(recentMetrics, "hrvSdn")
    IN  IF QGt(hrvBaseline, N(0))
        THEN IF QGe(hrv, QMul(hrvBaseline, Q(105, 100))) THEN Q(12, 10)
             ELSE IF QLe(hrv, QMul(hrvBaseline, Q(8, 10))) THEN Q(2, 10)
             ELSE N(1)
        ELSE N(1)

rhrFactor(recentMetrics) ==
    LET rhrBaseline == median_epoc(Truthy(recentMetrics, "restingHeartRate"))
        rhr == latestOrZero(recentMetrics, "restingHeartRate")
    IN  IF QGt(rhrBaseline, N(0))
        THEN IF QLe(rhr, QMul(rhrBaseline, Q(95, 100))) THEN Q(11, 10)
             ELSE IF QGe(rhr, QMul(rhrBaseline, Q(105, 100))) THEN Q(8, 10)
             ELSE N(1)
        ELSE N(1)

\* threeDaysAgo.setDate(now.getDate() - 3): the same time of day three days before
threeDaysAgo(now) == now - 3 * 24 * MsPerHour

\* the loads (loadScore ?? 0) of the workouts that started in the last three days
RECURSIVE recentLoad(_, _)
recentLoad(workoutSummaries, now) ==
    IF workoutSummaries = <<>> THEN N(0)
    ELSE LET w == Head(workoutSummaries)
             rest == recentLoad(Tail(workoutSummaries), now)
         IN  IF notBefore(w.startTime, threeDaysAgo(now))
             THEN QAdd(IF IsDefined(w.loadScore) THEN Get(w.loadScore) ELSE N(0), rest)
             ELSE rest

\* mutant: the stress factor not clamped
stressFactor_unclamped(load) == QSub(N(1), QDiv(load, N(300)))

stressFactor(load) == clamp(QSub(N(1), QDiv(load, N(300))), Q(2, 10), N(1))

\* Math.round of a non-negative number
round(x) == QFloor(QAdd(x, Q(1, 2)))

\* now is new Date() as read by the call
calculateRecoveryModifier(metrics, workoutSummaries, now) ==
    LET recentMetrics == SliceLast(metrics, 7)
        load == recentLoad(workoutSummaries, now)
        sleep == sleepFactor(recentMetrics)
        hrv == hrvFactor(recentMetrics)
        rhr == rhrFactor(recentMetrics)
        stress == stressFactor(load)
    IN  [modifier |-> QDiv(QAdd(QAdd(QAdd(sleep, hrv), rhr), stress), N(4)),
         sleepFactor |-> sleep,
         hrvFactor |-> hrv,
         rhrFactor |-> rhr,
         stressFactor |-> stress,
         recentLoad |-> round(load)]

(***************************************************************************)
(* Inputs the model feeds to the functions.                                *)
(***************************************************************************)
Metric(sleep, hrv, rhr) ==
    [sleepInMinutes |-> sleep, hrvSdn |-> hrv, restingHeartRate |-> rhr]

GoodDay == Metric(Some(480), Some(60), Some(50))
PoorDay == Metric(Some(300), Some(40), Some(66))

Days(n, day) == [i \in 1..n |-> day]

\* no history yet, a poor day after a good one, a good day after a poor one, six
\* days and seven days of entries
MetricHistoryChoices ==
    {<<>>, <<GoodDay, PoorDay>>, <<PoorDay, GoodDay>>, Days(6, PoorDay) \o <<GoodDay>>,
     Days(6, GoodDay)}

ZoneMinutes(a, b, c, d, e) == [z1 |-> a, z2 |-> b, z3 |-> c, z4 |-> d, z5 |-> e]

OnlyZ1(m) == ZoneMinutes(m, N(0), N(0), N(0), N(0))
OnlyZ2(m) == ZoneMinutes(N(0), m, N(0), N(0), N(0))
OnlyZ4(m) == ZoneMinutes(N(0), N(0), N(0), m, N(0))

TenEach == ZoneMinutes(N(10), N(10), N(10), N(10), N(10))

\* workouts whose loads sit on the status thresholds: 0.01 in either revision, then
\* (recovery.ts | earlier revision) 10 | 7.5, 25 | 20, 62.5 | 50, 100 | 80
WorkoutZoneChoices ==
    {OnlyZ1(Q(1, 100)), OnlyZ2(N(5)), OnlyZ4(N(5)), OnlyZ4(Q(25, 2)), OnlyZ4(N(20))}

WorkoutFrom(r, zm) ==
    [type |-> "running", zoneMinutes |-> zm, loadScore |-> LinkedWorkoutLoad(r, zm)]

\* clock readings relative to the previous snapshot: the clock set back an hour,
\* no time passed, ten hours
ElapsedChoices == {-MsPerHour, 0, 10 * MsPerHour}

Sample(start, end, bpm) == [startDate |-> start, endDate |-> end, value |-> bpm]

\* five minutes at 150, a point sample at 185, a sample that ends before it starts,
\* 2.5 minutes at 90, three minutes at 210, 1.5 minutes at 100, a minute at 162 (90
\* percent of 180), two minutes at 89
SampleChoices ==
    {Sample(0, 300000, 150), Sample(60000, 60000, 185), Sample(120000, 60000, 125),
     Sample(0, 150000, 90), Sample(0, 180000, 210), Sample(0, 90000, 100),
     Sample(0, 60000, 162), Sample(0, 120000, 89)}

HrMaxChoices == {-180, 0, 180, 200}

Floors(a, b, c, d, e) ==
    [z1 |-> <<N(a), N(b)>>, z2 |-> <<N(b), N(c)>>, z3 |-> <<N(c), N(d)>>,
     z4 |-> <<N(d), N(e)>>, z5 |-> <<N(e), N(e + 20)>>]

\* no table, an ascending table in bpm, a table whose floors descend
ZoneConfigChoices ==
    {Undefined, Some(Floors(95, 114, 133, 152, 171)), Some(Floors(170, 150, 130, 110, 90))}

Scale(zm, k) == [z \in DOMAIN zm |-> QMul(zm[z], k)]
Plus(zm1, zm2) == [z \in DOMAIN zm1 |-> QAdd(zm1[z], zm2[z])]

Rising == ZoneMinutes(N(1), N(2), N(3), N(4), Q(11, 2))

ScaleFactors == {N(0), Q(3, 2), N(2)}

LoadInputs(zm, ss, max, dur, avg, rest, sx, rp, ty) ==
    [zoneMinutes |-> zm, heartRateSamples |-> ss, hrMax |-> max, zoneConfig |-> Undefined,
     durationMinutes |-> dur, avgHeartRate |-> avg, restingHeartRate |-> rest,
     sex |-> sx, rpe |-> rp, workoutType |-> ty]

FromZones(zm) ==
    LoadInputs(Some(zm), Undefined, Undefined, N(50), Undefined, Undefined,
               Undefined, Undefined, Undefined)

LoadInputChoices ==
    {FromZones(TenEach), FromZones(Rising), FromZones(Plus(TenEach, Rising))}
    \cup {FromZones(Scale(TenEach, k)) : k \in ScaleFactors}
    \cup {FromZones(Scale(Rising, k)) : k \in ScaleFactors}
    \cup {LoadInputs(Undefined, Some(<<Sample(0, 300000, 150)>>), Some(200), N(5),
                     Some(150), Some(60), Undefined, Undefined, Some("Running")),
          LoadInputs(Undefined, Undefined, Some(200), N(30),
                     Some(130), Some(60), Some("female"), Undefined, Some("Cycling")),
          LoadInputs(Undefined, Undefined, Undefined, N(40),
                     Undefined, Undefined, Undefined, Some(7), Some("HIIT"))}

\* every combination of what a caller may supply: zone minutes or not; no
\* samples, an empty list, one sample; no max HR, 0, 200; average and resting HR
\* each given or not
StrategyInputChoices ==
    {LoadInputs(zm, ss, max, N(30), avg, rest, Undefined, Undefined, Some("Running")) :
        zm \in {Undefined, Some(TenEach)},
        ss \in {Undefined, Some(<<>>), Some(<<Sample(0, 300000, 150)>>)},
        max \in {Undefined, Some(0), Some(200)},
        avg \in {Undefined, Some(130)},
        rest \in {Undefined, Some(60)}}

\* TRIMP inputs: a negative, a zero and a positive duration; an average HR below,
\* at and above the resting HR of 60 and above the max HR; a max HR of 0, below,
\* at and above the resting HR; either sex constant
TrimpInputChoices ==
    {LoadInputs(Undefined, Undefined, Some(max), dur, Some(avg), Some(60), sx,
                Undefined, Undefined) :
        dur \in {N(-5), N(0), N(30)},
        avg \in {50, 60, 130, 250},
        max \in {0, 50, 60, 200},
        sx \in {Undefined, Some("female")}}

\* workout types as a caller may spell them: missing, empty, the table's keys in
\* several cases, a type the table lacks, and names every object carries
WorkoutTypeChoices ==
    {Undefined} \cup {Some(t) : t \in {"", "running", "Running", "RUNNING", "cycling",
                                       "Cycling", "strength", "hiit", "HIIT", "swimming",
                                       "Yoga", "default", "constructor", "Constructor"}}

\* RPE inputs: no heart-rate data at all
RpeInputChoices ==
    {LoadInputs(Undefined, Undefined, Undefined, dur, Undefined, Undefined, Undefined,
                rp, ty) :
        dur \in {N(-5), N(0), N(40)},
        rp \in {Undefined, Some(7)},
        ty \in WorkoutTypeChoices}

\* a WorkoutSummary as epoc.ts reads it; times in milliseconds
EpocWorkout(type, start, end, seconds, zm, load) ==
    [type |-> type, startTime |-> start, endTime |-> end,
     durationInSeconds |-> seconds, zoneMinutes |-> zm, loadScore |-> load]

\* the clock reading of the calls of epoc.ts: 100 hours after the epoch; the cutoff
\* of the recovery estimate is 48 hours before it
EpocNow == 100 * MsPerHour
EpocSince == 52 * MsPerHour

\* an hour's run over all zones that ended 2 hours ago; ten minutes' walk without
\* zone data that ended 5 hours ago; a session that ends an hour from now; a run
\* that ended before the cutoff; a workout whose type is a name every object
\* carries; a workout whose end time does not parse
EpocWorkoutChoices ==
    {EpocWorkout(Some("Running"), Some(97 * MsPerHour), Some(98 * MsPerHour), N(3600),
                 TenEach, Some(N(160))),
     EpocWorkout(Some("Walking"), Some(94 * MsPerHour), Some(95 * MsPerHour), N(600),
                 createEmptyZones, Some(N(50))),
     EpocWorkout(Some("HIIT"), Some(100 * MsPerHour), Some(101 * MsPerHour), N(1800),
                 createEmptyZones, Undefined),
     EpocWorkout(Some("Running"), Some(9 * MsPerHour), Some(10 * MsPerHour), N(3600),
                 TenEach, Some(N(160))),
     EpocWorkout(Some("constructor"), Some(98 * MsPerHour), Some(99 * MsPerHour), N(1200),
                 createEmptyZones, Some(N(20))),
     EpocWorkout(Undefined, Undefined, Undefined, N(3600), TenEach, Some(N(160)))}

\* every list of at most n of those workouts
RECURSIVE EpocWorkoutLists(_)
EpocWorkoutLists(n) ==
    IF n = 0 THEN {<<>>}
    ELSE EpocWorkoutLists(n - 1)
         \cup {Append(ws, w) : ws \in EpocWorkoutLists(n - 1), w \in EpocWorkoutChoices}

\* the modifier given to the estimate: none, a slow, a neutral, a fast recovery
EpocModifierChoices == {N(0), Q(17, 40), N(1), Q(6, 5)}

\* workouts for one estimate: a duration that is not a number, infinite, negative,
\* zero or an hour; with zone data, or with a type the table names, or with a type
\* that is a name every object carries
EpocSingleWorkoutChoices ==
    {EpocWorkout(Some(ty), Some(97 * MsPerHour), Some(98 * MsPerHour), seconds,
                 IF ty = "Running" THEN TenEach ELSE createEmptyZones, Some(N(160))) :
        ty \in {"Running", "Walking", "constructor"},
        seconds \in {NaN, Infinity, N(-600), N(0), N(3600)}}

\* configurations: vo2Max and k negative, zero or the default; fInt zero or the default
EpocConfigChoices ==
    {[a |-> DEFAULT_CONFIG.a, fInt |-> f, vo2Max |-> v, k |-> kk] :
        f \in {N(0), DEFAULT_CONFIG.fInt},
        v \in {N(-40), N(0), DEFAULT_CONFIG.vo2Max},
        kk \in {N(-1), N(0), DEFAULT_CONFIG.k}}

HoursAddedCalls ==
    {[fn |-> "estimateRecoveryHoursAdded", workout |-> w, config |-> c] :
        w \in EpocSingleWorkoutChoices, c \in EpocConfigChoices}

BadDay == Metric(Some(200), Some(30), Some(70))
NoSignals == Metric(Undefined, Undefined, Undefined)
OnlySleep == Metric(Some(480), Undefined, Undefined)

\* histories for the recovery modifier: none; a poor, a good and a bad day after
\* another; a latest entry without any signal or with sleep only after a good day;
\* an entry without signals alone; eight entries, the oldest outside the window
EpocHistoryChoices ==
    MetricHistoryChoices
    \cup {<<GoodDay, BadDay>>, <<GoodDay, NoSignals>>, <<GoodDay, OnlySleep>>,
          <<NoSignals>>,
          <<BadDay, GoodDay, GoodDay, GoodDay, GoodDay, GoodDay, GoodDay, GoodDay>>}

\* three equal days and a latest day on or one beside a boundary of each band: sleep
\* at 70, 100 and 120 percent of the baseline, HRV at 80 and 105 percent, resting
\* heart rate at 95 and 105 percent
EpocBaseDay == Metric(Some(500), Some(60), Some(60))

EpocLatestChoices ==
    {Metric(Some(s), Some(p[1]), Some(p[2])) :
        s \in {349, 350, 499, 500, 599, 600},
        p \in {<<63, 57>>, <<62, 58>>, <<48, 63>>, <<49, 62>>, <<60, 60>>}}

EpocBandHistories ==
    {<<EpocBaseDay, EpocBaseDay, EpocBaseDay, d>> : d \in EpocLatestChoices}

\* a workout that started exactly three days before the clock reading and one that
\* started a millisecond earlier
StartedAtCutoff ==
    EpocWorkout(Some("Running"), Some(28 * MsPerHour), Some(29 * MsPerHour), N(3600),
                TenEach, Some(N(240)))
StartedBeforeCutoff ==
    EpocWorkout(Some("Running"), Some(28 * MsPerHour - 1), Some(29 * MsPerHour), N(3600),
                TenEach, Some(N(80)))

EpocCutoffLists ==
    {<<StartedAtCutoff>>, <<StartedBeforeCutoff>>, <<StartedAtCutoff, StartedBeforeCutoff>>}

ModifierCalls ==
    {[fn |-> "calculateRecoveryModifier", dailyMetrics |-> ms, workoutSummaries |-> ws,
      now |-> EpocNow] :
        ms \in EpocHistoryChoices \cup EpocBandHistories,
        ws \in EpocWorkoutLists(MaxWorkouts) \cup EpocCutoffLists}

RemainingCalls ==
    {[fn |-> "estimateRecoveryRemaining", workouts |-> ws, since |-> EpocSince,
      modifier |-> m, config |-> DEFAULT_CONFIG, nowMs |-> EpocNow] :
        ws \in EpocWorkoutLists(MaxWorkouts), m \in EpocModifierChoices}

(***************************************************************************)
(* The recovery timeline: calculateNewRecoveryState applied again and      *)
(* again, each call fed the snapshot the previous call returned.           *)
(***************************************************************************)
\* useRecoveryState.ts, initialAppData.lastRecoveryState
InitialRecoveryState ==
    [timestamp |-> 0,
     debtScore |-> N(0),
     recoveryHoursRemaining |-> N(0),
     readyForHardTrainingAt |-> Undefined,
     status |-> "green",
     explanationBreakdown |-> Undefined]

IdleZones == samples = <<>> /\ hrMax = 200 /\ zoneConfig = Undefined /\ zones = Undefined
IdleLoad == scoreLog = {}
IdleEpoc == epocIn = Undefined /\ epocOut = Undefined
IdleHeap == heap = <<>> /\ heapCall = Undefined
IdleTwin == twin = Undefined
IdleHook ==
    /\ isLoading = FALSE /\ error = Undefined /\ isHealthKitAvailable = FALSE
    /\ summaries = <<>> /\ clock = 0 /\ healthKit = Undefined
    /\ invocation = <<>> /\ refreshes = 0 /\ included = <<>>
IdleRecovery ==
    /\ dailyMetrics = <<>>
    /\ call = Undefined
    /\ lastRecoveryState = InitialRecoveryState
    /\ calls = 0

Init == rev \in Revisions /\ IdleRecovery /\ IdleZones /\ IdleLoad /\ IdleEpoc /\ IdleHeap /\ IdleTwin /\ IdleHook

\* new Date(): what the clock may read when the update runs
ClockReadings ==
    {t \in {lastRecoveryState.timestamp + e : e \in ElapsedChoices} : t >= 0}

Invoke(ms, newWorkout, now) ==
    /\ calls < MaxCalls
    /\ calls' = calls + 1
    /\ dailyMetrics' = ms
    /\ call' = Some([previousState |-> lastRecoveryState,
                     newWorkout |-> newWorkout, now |-> now,
                     baselines |-> [f \in SignalNames |-> baseline(ms, f)]])
    /\ lastRecoveryState' = LinkedNewRecoveryState(rev, lastRecoveryState, ms, newWorkout, now)
    /\ UNCHANGED <<rev, zoneVars, loadVars, epocVars, heapVars, twinVars, hookVars>>

\* calculateNewRecoveryState(previousState, dailyMetrics)
Update ==
    \E now \in ClockReadings, ms \in MetricHistoryChoices :
        Invoke(ms, Undefined, now)

\* calculateNewRecoveryState(previousState, dailyMetrics, newWorkout)
UpdateWithWorkout ==
    \E now \in ClockReadings, ms \in MetricHistoryChoices, zm \in WorkoutZoneChoices :
        Invoke(ms, Some(WorkoutFrom(rev, zm)), now)

Next ==
    \/ Update
    \/ UpdateWithWorkout

Spec == Init /\ [][Next]_vars

(***************************************************************************)
(* Zone classification: calculateZoneMinutesFromSamples on sample lists.   *)
(***************************************************************************)
InitZones ==
    /\ rev = "recovery.ts" /\ IdleRecovery /\ IdleLoad /\ IdleEpoc /\ IdleHeap /\ IdleTwin /\ IdleHook
    /\ samples = <<>>
    /\ hrMax \in HrMaxChoices
    /\ zoneConfig \in ZoneConfigChoices
    /\ zones = Undefined

AddSample(s) ==
    /\ Len(samples) < MaxSamples
    /\ samples' = Append(samples, s)
    /\ zones' = Undefined
    /\ UNCHANGED <<rev, hrMax, zoneConfig, recoveryVars, loadVars, epocVars, heapVars, twinVars, hookVars>>

Classify ==
    /\ zones = Undefined
    /\ zones' = Some(calculateZoneMinutesFromSamples(samples, hrMax, zoneConfig))
    /\ UNCHANGED <<rev, samples, hrMax, zoneConfig, recoveryVars, loadVars, epocVars, heapVars, twinVars, hookVars>>

NextZones ==
    \/ \E s \in SampleChoices : AddSample(s)
    \/ Classify

SpecZones == InitZones /\ [][NextZones]_vars

(***************************************************************************)
(* Load scoring: calculateWorkoutLoadFromInputs, its calls recorded.       *)
(***************************************************************************)
InitLoad == rev \in Revisions /\ IdleRecovery /\ IdleZones /\ IdleLoad /\ IdleEpoc /\ IdleHeap /\ IdleTwin /\ IdleHook

Score(inputs) ==
    /\ Cardinality(scoreLog) < MaxLog
    /\ scoreLog' = scoreLog \cup
           {[in |-> inputs, out |-> calculateWorkoutLoadFromInputs(rev, inputs)]}
    /\ UNCHANGED <<rev, recoveryVars, zoneVars, epocVars, heapVars, twinVars, hookVars>>

NextLoad == \E inputs \in LoadInputChoices : Score(inputs)

SpecLoad == InitLoad /\ [][NextLoad]_vars

(***************************************************************************)
(* Strategy selection: calculateWorkoutLoadFromInputs on one input record  *)
(* at a time, over every combination of supplied and missing fields.       *)
(***************************************************************************)
InitStrategy == rev \in Revisions /\ IdleRecovery /\ IdleZones /\ IdleLoad /\ IdleEpoc /\ IdleHeap /\ IdleTwin /\ IdleHook

ScoreOne(inputs) ==
    /\ Cardinality(scoreLog) < MaxScored
    /\ scoreLog' = scoreLog \cup
           {[in |-> inputs, out |-> calculateWorkoutLoadFromInputs(rev, inputs)]}
    /\ UNCHANGED <<rev, recoveryVars, zoneVars, epocVars, heapVars, twinVars, hookVars>>

ScoreStrategy == \E inputs \in StrategyInputChoices : ScoreOne(inputs)

ScoreTrimp == \E inputs \in TrimpInputChoices : ScoreOne(inputs)

ScoreRpe == \E inputs \in RpeInputChoices : ScoreOne(inputs)

NextStrategy ==
    \/ ScoreStrategy
    \/ ScoreTrimp
    \/ ScoreRpe

SpecStrategy == InitStrategy /\ [][NextStrategy]_vars

(***************************************************************************)
(* The EPOC estimate: one call of a function of epoc.ts on arguments drawn *)
(* at the start.                                                           *)
(***************************************************************************)
EpocCallChoices == RemainingCalls \cup HoursAddedCalls \cup ModifierCalls

InitEpoc ==
    /\ rev = "recovery.ts" /\ IdleRecovery /\ IdleZones /\ IdleLoad /\ IdleHeap /\ IdleTwin /\ IdleHook
    /\ epocIn \in {Some(c) : c \in EpocCallChoices}
    /\ epocOut = Undefined

Return(fn, result) ==
    /\ IsDefined(epocIn) /\ Get(epocIn).fn = fn
    /\ epocOut = Undefined
    /\ epocOut' = Some(result)
    /\ UNCHANGED <<rev, epocIn, recoveryVars, zoneVars, loadVars, heapVars, twinVars, hookVars>>

EstimateRecoveryRemaining ==
    Return("estimateRecoveryRemaining",
           LET in == Get(epocIn)
           IN  estimateRecoveryRemaining(in.workouts, in.since, in.modifier, in.config,
                                         in.nowMs))

EstimateRecoveryHoursAdded ==
    Return("estimateRecoveryHoursAdded",
           estimateRecoveryHoursAdded(Get(epocIn).workout, Get(epocIn).config))

CalculateRecoveryModifier ==
    Return("calculateRecoveryModifier",
           calculateRecoveryModifier(Get(epocIn).dailyMetrics,
                                     Get(epocIn).workoutSummaries, Get(epocIn).now))

NextEpoc ==
    \/ EstimateRecoveryRemaining
    \/ EstimateRecoveryHoursAdded
    \/ CalculateRecoveryModifier

SpecEpoc == InitEpoc /\ [][NextEpoc]_vars

(***************************************************************************)
(* The three exported functions once more, statement by statement, on a    *)
(* heap of objects.  Arguments and results are references into heap, so    *)
(* that a write to an argument, and a result that is one of the arguments, *)
(* show.  An array holds its entries by value; numbers, strings and        *)
(* undefined are values, never references.                                 *)
(***************************************************************************)
\* an object or array literal, or a builtin that copies: a new object at a new
\* reference
alloc(h, object) == [heap |-> Append(h, object), ref |-> Len(h) + 1]

\* mutant: arr.splice(-n), which cuts the entries out of the receiver
slice_splice(h, arr, n) ==
    LET removed == SliceLast(h[arr], n)
    IN  alloc([h EXCEPT ![arr] = SubSeq(@, 1, Len(@) - Len(removed))], removed)

\* arr.slice(-n): a new array, the receiver as it was
slice(h, arr, n) == alloc(h, SliceLast(h[arr], n))

\* arr.map(m => m.field).filter(Boolean): a new array from map, another from filter
mapFilter(h, arr, field) ==
    LET mapped == alloc(h, [i \in 1..Len(h[arr]) |-> h[arr][i][field]])
    IN  alloc(mapped.heap, Truthy(h[arr], field))

\* median(arr): [...arr] is a new array, and sort orders that copy in place
median_heap(h, arr) ==
    IF Len(h[arr]) = 0 THEN h
    ELSE LET sorted == alloc(h, h[arr])
         IN  [sorted.heap EXCEPT ![sorted.ref] = SortAscending(@)]

\* one baseline: median(relevantMetrics.map(..).filter(Boolean))
baseline_heap(h, relevantMetrics, field) ==
    LET present == mapFilter(h, relevantMetrics, field)
    IN  median_heap(present.heap, present.ref)

\* calculateNewRecoveryState: previousState, metrics and newWorkout are references
\* (newWorkout an optional one); the fields of the returned literal are computed
\* from the objects as they are after the baselines were taken
calculateNewRecoveryState_heap(r, h, previousState, metrics, newWorkout, now) ==
    LET relevantMetrics == slice(h, metrics, 28)
        afterSleep == baseline_heap(relevantMetrics.heap, relevantMetrics.ref,
                                    "sleepInMinutes")
        afterHrv == baseline_heap(afterSleep, relevantMetrics.ref, "hrvSdn")
        afterRhr == baseline_heap(afterHrv, relevantMetrics.ref, "restingHeartRate")
    IN  alloc(afterRhr,
              LinkedNewRecoveryState(r, afterRhr[previousState], afterRhr[metrics],
                                     IF IsDefined(newWorkout)
                                     THEN Some(afterRhr[Get(newWorkout)])
                                     ELSE Undefined,
                                     now))

\* calculateZoneMinutesFromSamples: zones is the literal of createEmptyZones(),
\* resolvedZones the caller's config or a new literal; zones.zN += minutes writes
\* the new zones object
calculateZoneMinutesFromSamples_heap(h, sampleList, max, config) ==
    LET zoneObject == alloc(h, createEmptyZones)
    IN  IF Len(h[sampleList]) = 0 \/ max <= 0 THEN zoneObject
        ELSE LET resolvedZones == resolveZoneConfig(max, config)
                 resolved == IF IsDefined(config) THEN zoneObject.heap
                             ELSE alloc(zoneObject.heap, resolvedZones).heap
             IN  [heap |-> [resolved EXCEPT ![zoneObject.ref] =
                                forEachSample(h[sampleList], resolvedZones, @)],
                  ref |-> zoneObject.ref]

\* calculateWorkoutLoadFromInputs: inputs is a reference to an object whose
\* zoneMinutes and heartRateSamples are optional references; the returned literal
\* holds a reference to its zone minutes
calculateWorkoutLoadFromInputs_heap(r, h, inputsRef) ==
    LET inputs == h[inputsRef]
    IN  IF IsDefined(inputs.zoneMinutes)
        THEN alloc(h, [loadScore |-> LinkedWorkoutLoad(r, h[Get(inputs.zoneMinutes)]),
                       zoneMinutes |-> Get(inputs.zoneMinutes),
                       method |-> "zones"])
        ELSE IF IsDefined(inputs.heartRateSamples)
                /\ IsDefined(inputs.hrMax) /\ Get(inputs.hrMax) # 0
        THEN LET derivedZones ==
                     calculateZoneMinutesFromSamples_heap(h, Get(inputs.heartRateSamples),
                                                          Get(inputs.hrMax),
                                                          inputs.zoneConfig)
             IN  alloc(derivedZones.heap,
                       [loadScore |->
                            LinkedWorkoutLoad(r, derivedZones.heap[derivedZones.ref]),
                        zoneMinutes |-> derivedZones.ref,
                        method |-> "zones"])
        ELSE IF IsDefined(inputs.avgHeartRate) /\ IsDefined(inputs.restingHeartRate)
                /\ IsDefined(inputs.hrMax)
        THEN LET loadScore == calculateTrimpLoad(inputs.durationMinutes,
                                                 Get(inputs.avgHeartRate),
                                                 Get(inputs.restingHeartRate),
                                                 Get(inputs.hrMax), inputs.sex)
                 emptyZones == alloc(h, createEmptyZones)
             IN  alloc(emptyZones.heap,
                       [loadScore |-> loadScore, zoneMinutes |-> emptyZones.ref,
                        method |-> "trimp"])
        ELSE LET loadScore == calculateRpeLoad(inputs.durationMinutes,
                                               IF IsDefined(inputs.rpe)
                                               THEN Get(inputs.rpe) ELSE DEFAULT_RPE,
                                               inputs.workoutType)
                 emptyZones == alloc(h, createEmptyZones)
             IN  alloc(emptyZones.heap,
                       [loadScore |-> loadScore, zoneMinutes |-> emptyZones.ref,
                        method |-> "rpe"])

\* the objects a caller holds before the call, and where they are
PreviousStateRef == 1
DailyMetricsRef == 2
NewWorkoutRef == 3
SamplesRef == 4
ZoneMinutesRef == 5
InputsRef == 6

\* the snapshot a fresh installation starts from, and the one returned for a
\* first workout
HeapPreviousStates(r) ==
    {InitialRecoveryState,
     LinkedNewRecoveryState(r, InitialRecoveryState, <<GoodDay>>,
                            Some(WorkoutFrom(r, OnlyZ4(N(20)))), 0)}

\* no sample, one sample, two samples out of order
HeapSampleLists ==
    {<<>>, <<Sample(0, 300000, 150)>>, <<Sample(0, 180000, 210), Sample(0, 150000, 90)>>}

\* inputs for each of the four strategies: the zone minutes and the samples are
\* the caller's objects
HeapInputObjects ==
    {LoadInputs(Some(ZoneMinutesRef), Undefined, Undefined, N(50), Undefined, Undefined,
                Undefined, Undefined, Undefined),
     LoadInputs(Undefined, Some(SamplesRef), Some(200), N(5), Some(150), Some(60),
                Undefined, Undefined, Some("Running")),
     LoadInputs(Undefined, Undefined, Some(200), N(30), Some(130), Some(60),
                Some("female"), Undefined, Some("Cycling")),
     LoadInputs(Undefined, Undefined, Undefined, N(40), Undefined, Undefined, Undefined,
                Some(7), Some("HIIT"))}

\* the inputs object with its references followed
Followed(h, inputsRef) ==
    [h[inputsRef] EXCEPT
        !.zoneMinutes = IF IsDefined(@) THEN Some(h[Get(@)]) ELSE Undefined,
        !.heartRateSamples = IF IsDefined(@) THEN Some(h[Get(@)]) ELSE Undefined]

InitHeap ==
    /\ rev \in Revisions /\ IdleRecovery /\ IdleZones /\ IdleLoad /\ IdleEpoc /\ IdleTwin /\ IdleHook
    /\ heapCall = Undefined
    /\ \E previousState \in HeapPreviousStates(rev), ms \in MetricHistoryChoices,
          ss \in HeapSampleLists, inputs \in HeapInputObjects :
           heap = <<previousState, ms, WorkoutFrom(rev, OnlyZ4(N(5))), ss, TenEach, inputs>>

\* one call: the heap after it, and a record of the call with the heap before it
Traced(fn, args, done) ==
    /\ heapCall = Undefined
    /\ heap' = done.heap
    /\ heapCall' = Some([fn |-> fn, args |-> args, before |-> heap, result |-> done.ref])
    /\ UNCHANGED <<rev, recoveryVars, zoneVars, loadVars, epocVars, twinVars, hookVars>>

\* calculateNewRecoveryState(previousState, dailyMetrics[, newWorkout]), ten hours
\* after the previous snapshot
CallNewRecoveryState ==
    \E newWorkout \in {Undefined, Some(NewWorkoutRef)} :
        LET now == heap[PreviousStateRef].timestamp + 10 * MsPerHour
        IN  Traced("calculateNewRecoveryState",
                   [newWorkout |-> newWorkout, now |-> now],
                   calculateNewRecoveryState_heap(rev, heap, PreviousStateRef,
                                                  DailyMetricsRef, newWorkout, now))

\* calculateZoneMinutesFromSamples(samples, hrMax)
CallZoneMinutesFromSamples ==
    \E max \in {0, 180} :
        Traced("calculateZoneMinutesFromSamples", [hrMax |-> max],
               calculateZoneMinutesFromSamples_heap(heap, SamplesRef, max, Undefined))

\* calculateWorkoutLoadFromInputs(inputs)
CallWorkoutLoadFromInputs ==
    Traced("calculateWorkoutLoadFromInputs", [inputs |-> InputsRef],
           calculateWorkoutLoadFromInputs_heap(rev, heap, InputsRef))

NextHeap ==
    \/ CallNewRecoveryState
    \/ CallZoneMinutesFromSamples
    \/ CallWorkoutLoadFromInputs

SpecHeap == InitHeap /\ [][NextHeap]_vars

(***************************************************************************)
(* Baselines and modifiers: calculateNewRecoveryState on a history the     *)
(* caller holds, chosen to sit on and beside every band boundary.          *)
(***************************************************************************)
\* the day the baselines settle on: 500 minutes of sleep, HRV 50, resting HR 60
BaseDay == Metric(Some(500), Some(50), Some(60))

\* latest entries around that day's bands.  Sleep: missing, 0, just below and at
\* 80 % (400), just below and at 100 %.  HRV | resting HR: missing, 0, below 90 % |
\* above 105 %, at 90 % (45) | at 105 % (63), at 110 % (55) | at 95 % (57), above
\* 110 % | below 95 %, at the baseline
LatestDayChoices ==
    {Metric(sleep, pair[1], pair[2]) :
        sleep \in {Undefined, Some(0), Some(399), Some(400), Some(499), Some(500)},
        pair \in {<<Undefined, Undefined>>, <<Some(0), Some(0)>>,
                  <<Some(44), Some(64)>>, <<Some(45), Some(63)>>,
                  <<Some(55), Some(57)>>, <<Some(56), Some(56)>>,
                  <<Some(50), Some(60)>>}}

ZeroDay == Metric(Some(0), Some(0), Some(0))
LowDay == Metric(Some(300), Some(40), Some(50))
HighDay == Metric(Some(500), Some(60), Some(70))
OldDay == Metric(Some(100), Some(10), Some(40))

\* three base days and a latest entry; then histories for the median: none, one
\* entry, two entries (an even count with a fractional mean), zero and missing
\* values among present ones, nothing but zero and missing values, one entry
\* without any value, and 29 entries
\* whose oldest lies outside the window of 28 and would move the median
BaselineHistoryChoices ==
    {Days(3, BaseDay) \o <<d>> : d \in LatestDayChoices}
    \cup {<<>>, <<GoodDay>>, <<GoodDay, Metric(Some(301), Some(45), Some(55))>>,
          <<ZeroDay, NoSignals, GoodDay, PoorDay, Metric(Some(400), Some(70), Some(40))>>,
          <<ZeroDay, NoSignals>>, <<NoSignals, ZeroDay>>, <<NoSignals>>,
          <<OldDay>> \o Days(14, LowDay) \o Days(14, HighDay)}

\* previous snapshots: a fresh installation's, the one returned for a first
\* workout, and one a hundredth of a load point above the yellow threshold of
\* recovery.ts
BaselinePreviousStates(r) ==
    HeapPreviousStates(r)
    \cup {LinkedNewRecoveryState(
              r, InitialRecoveryState, <<>>,
              Some(WorkoutFrom(r, ZoneMinutes(Q(1, 100), N(5), N(0), N(0), N(0)))), 0)}

\* clock readings: those of the timeline; and, for the snapshot a hundredth above
\* the threshold and a history whose rate is 6 * 1.15, 5.217 seconds after that
\* snapshot, when the hundredth has decayed but for a remainder worth less than a
\* millisecond
HeldClockReadings ==
    ClockReadings
    \cup (IF lastRecoveryState.debtScore = Q(1001, 100) /\ dailyMetrics = <<NoSignals>>
          THEN {lastRecoveryState.timestamp + 5217} ELSE {})

InitBaselines ==
    /\ rev \in Revisions /\ IdleZones /\ IdleLoad /\ IdleEpoc /\ IdleHeap /\ IdleTwin /\ IdleHook
    /\ dailyMetrics \in BaselineHistoryChoices
    /\ call = Undefined
    /\ lastRecoveryState \in BaselinePreviousStates(rev)
    /\ calls = 0

\* calculateNewRecoveryState(previousState, dailyMetrics[, newWorkout]) on the
\* history held
UpdateHeld ==
    /\ calls = 0
    /\ \E now \in HeldClockReadings,
          newWorkout \in {Undefined, Some(WorkoutFrom(rev, OnlyZ4(N(5))))} :
           Invoke(dailyMetrics, newWorkout, now)

NextBaselines == UpdateHeld

SpecBaselines == InitBaselines /\ [][NextBaselines]_vars

(***************************************************************************)
(* Two callers: the same update applied to two previous states that agree  *)
(* on timestamp and debtScore and on nothing else.                         *)
(***************************************************************************)
\* what another caller may hold for the same timestamp and debt: a state without
\* its breakdown, with other modifiers in it, with another status, other hours
\* remaining and another ready-at time, and one with all of these changed
TwinChoices(s) ==
    {[s EXCEPT !.explanationBreakdown = Undefined, !.status = "red"],
     [s EXCEPT !.explanationBreakdown =
                   Some([lastWorkoutLoad |-> Some(N(500)), sleepModifier |-> Q(85, 100),
                         hrvModifier |-> Q(9, 10), rhrModifier |-> Q(9, 10),
                         learningModifier |-> Some(Q(115, 100))])],
     [s EXCEPT !.status = IF s.status = "green" THEN "yellow" ELSE "green"],
     [s EXCEPT !.recoveryHoursRemaining = QAdd(s.recoveryHoursRemaining, N(24))],
     [s EXCEPT !.readyForHardTrainingAt = Some(s.timestamp + 5 * MsPerHour)],
     [s EXCEPT !.explanationBreakdown =
                   Some([lastWorkoutLoad |-> Undefined, sleepModifier |-> Q(115, 100),
                         hrvModifier |-> Q(11, 10), rhrModifier |-> Q(105, 100),
                         learningModifier |-> Undefined]),
               !.status = "yellow",
               !.recoveryHoursRemaining = N(1),
               !.readyForHardTrainingAt = Some(s.timestamp + MsPerHour)]} \ {s}

InitTwin ==
    /\ rev \in Revisions /\ IdleZones /\ IdleLoad /\ IdleEpoc /\ IdleHeap /\ IdleHook
    /\ dailyMetrics = <<>>
    /\ call = Undefined
    /\ calls = 0
    /\ lastRecoveryState \in HeapPreviousStates(rev)
    /\ \E t \in TwinChoices(lastRecoveryState) :
           twin = Some([previousState |-> t, returned |-> Undefined])

\* calculateNewRecoveryState with the same dailyMetrics, newWorkout and clock
\* reading, once on each caller's previous state
UpdateBoth ==
    /\ calls = 0
    /\ \E now \in ClockReadings, ms \in MetricHistoryChoices,
          newWorkout \in {Undefined, Some(WorkoutFrom(rev, OnlyZ4(N(5))))} :
           /\ calls' = calls + 1
           /\ dailyMetrics' = ms
           /\ call' = Some([previousState |-> lastRecoveryState,
                            newWorkout |-> newWorkout, now |-> now,
                            baselines |-> [f \in SignalNames |-> baseline(ms, f)]])
           /\ lastRecoveryState' =
                  LinkedNewRecoveryState(rev, lastRecoveryState, ms, newWorkout, now)
           /\ twin' = Some([Get(twin) EXCEPT !.returned =
                  Some(LinkedNewRecoveryState(rev, Get(twin).previousState, ms,
                                              newWorkout, now))])
    /\ UNCHANGED <<rev, zoneVars, loadVars, epocVars, heapVars, hookVars>>

NextTwin == UpdateBoth

SpecTwin == InitTwin /\ [][NextTwin]_vars

(***************************************************************************)
(* Properties of the recovery timeline (specification Spec).               *)
(***************************************************************************)
Called == IsDefined(call)
PreviousState == Get(call).previousState
NewWorkout == Get(call).newWorkout
Now == Get(call).now
Debt == lastRecoveryState.debtScore
HoursRemaining == lastRecoveryState.recoveryHoursRemaining

\* a rational compared with a whole number, by cross-multiplication
Below(q, k) == q.num < k * q.den
AtMost(q, k) == q.num <= k * q.den
Is(q, n, d) == q.num * d = n * q.den

\* C1: along every chain of updates that starts from a snapshot with debtScore >= 0
\* and applies workouts of loadScore >= 0, the returned debtScore is never negative.
C1_DebtNeverNegative ==
    /\ Debt.num >= 0
    /\ Called /\ IsDefined(NewWorkout) =>
           /\ Get(NewWorkout).loadScore.num >= 0
           /\ QGe(Debt, Get(NewWorkout).loadScore)

\* C1 witness: ten hours after a snapshot with debt 25 the decay (at least 60 * 0.85
\* * 0.9 * 0.9) exceeds the debt, and the update returns debt 0.
C1_Witness ==
    /\ Called /\ ~IsDefined(NewWorkout)
    /\ Is(PreviousState.debtScore, 25, 1)
    /\ Now - PreviousState.timestamp = 10 * MsPerHour
    /\ Is(Debt, 0, 1)

\* C2: the returned status is green iff debt <= yellow, yellow iff yellow < debt <= red,
\* red iff debt > red, for the two ordered thresholds of the revision; with the
\* thresholds 20 and 80 debt 20 is green, 20.01 yellow, 80 yellow and 80.01 red.
C2_StatusFromDebt ==
    LET yellow == LinkedThresholds(rev).YELLOW.num
        red == LinkedThresholds(rev).RED.num
        status == lastRecoveryState.status
    IN  /\ LinkedThresholds(rev).YELLOW.den = 1 /\ LinkedThresholds(rev).RED.den = 1
        /\ yellow < red
        /\ status \in {"green", "yellow", "red"}
        /\ status = "green" <=> AtMost(Debt, yellow)
        /\ status = "yellow" <=> (~AtMost(Debt, yellow) /\ AtMost(Debt, red))
        /\ status = "red" <=> ~AtMost(Debt, red)
        /\ (yellow = 20 /\ red = 80) =>
               /\ Is(Debt, 20, 1) => status = "green"
               /\ Is(Debt, 2001, 100) => status = "yellow"
               /\ Is(Debt, 80, 1) => status = "yellow"
               /\ Is(Debt, 8001, 100) => status = "red"

\* C2 witness: with thresholds 20 and 80 an update returns debt 20.01, status yellow.
C2_Witness ==
    /\ Called
    /\ LinkedThresholds(rev) = [RED |-> N(80), YELLOW |-> N(20)]
    /\ Is(Debt, 2001, 100)
    /\ lastRecoveryState.status = "yellow"

\* C3: in every snapshot returned by calculateNewRecoveryState of recovery.ts,
\* recoveryHoursRemaining is 0 whenever debtScore is at or below the yellow threshold,
\* and it is never negative (in either revision).
C3_HoursZeroWhenReady ==
    /\ HoursRemaining.num >= 0
    /\ (rev = "recovery.ts" /\ AtMost(Debt, DEBT_THRESHOLDS.YELLOW.num)) =>
           HoursRemaining.num = 0

\* C3 witness: an update of recovery.ts returns a debt above 0 and at most the
\* yellow threshold, with no recovery hours remaining.
C3_Witness ==
    /\ Called /\ rev = "recovery.ts"
    /\ Debt.num > 0 /\ AtMost(Debt, DEBT_THRESHOLDS.YELLOW.num)
    /\ HoursRemaining.num = 0

\* C4: an update without a new workout returns a debtScore <= the previous snapshot's
\* debtScore, whatever the modifiers are (so also when elapsed time is > 0).
C4_DebtNonIncreasing ==
    (Called /\ ~IsDefined(NewWorkout)) => QLe(Debt, PreviousState.debtScore)

\* C4 witness: time has passed, no workout, the modifiers are not neutral, and the debt
\* went down without reaching the floor.
C4_Witness ==
    /\ Called /\ ~IsDefined(NewWorkout)
    /\ Now > PreviousState.timestamp
    /\ dailyMetrics # <<>>
    /\ Get(lastRecoveryState.explanationBreakdown).sleepModifier # N(1)
    /\ Debt.num > 0
    /\ QLt(Debt, PreviousState.debtScore)

\* C5: an update whose clock reading equals the previous snapshot's timestamp, with
\* no new workout, returns the previous debtScore, whatever the daily metrics are.
C5_ZeroElapsedKeepsDebt ==
    (Called /\ ~IsDefined(NewWorkout) /\ Now = PreviousState.timestamp) =>
        Debt = PreviousState.debtScore

\* C5 witness: a positive debt, metrics with non-neutral modifiers, zero elapsed time.
C5_Witness ==
    /\ Called /\ ~IsDefined(NewWorkout)
    /\ Now = PreviousState.timestamp
    /\ dailyMetrics # <<>>
    /\ PreviousState.debtScore.num > 0
    /\ Debt = PreviousState.debtScore

\* C7: from a snapshot with debtScore 50 taken ten hours earlier, with no daily
\* metrics and no new workout, the update returns debtScore 0, status green,
\* recoveryHoursRemaining 0 and no readyForHardTrainingAt; all modifiers are neutral,
\* and the earlier revision's base rate is 10.
C7_FiftyAfterTenHours ==
    (/\ Called /\ ~IsDefined(NewWorkout)
     /\ Is(PreviousState.debtScore, 50, 1)
     /\ Now - PreviousState.timestamp = 10 * MsPerHour
     /\ dailyMetrics = <<>>) =>
        /\ Is(Debt, 0, 1)
        /\ lastRecoveryState.status = "green"
        /\ Is(HoursRemaining, 0, 1)
        /\ lastRecoveryState.readyForHardTrainingAt = Undefined
        /\ Get(lastRecoveryState.explanationBreakdown).sleepModifier = N(1)
        /\ Get(lastRecoveryState.explanationBreakdown).hrvModifier = N(1)
        /\ Get(lastRecoveryState.explanationBreakdown).rhrModifier = N(1)
        /\ rev = "part_002" => BASE_RECOVERY_RATE_PER_HOUR_p2 = N(10)

\* C7 witness: the earlier revision (base rate 10) has made exactly that update.
C7_Witness ==
    /\ Called /\ ~IsDefined(NewWorkout)
    /\ rev = "part_002"
    /\ Is(PreviousState.debtScore, 50, 1)
    /\ Now - PreviousState.timestamp = 10 * MsPerHour
    /\ dailyMetrics = <<>>
    /\ Is(Debt, 0, 1)

(***************************************************************************)
(* Properties of load scoring (specification SpecLoad).                    *)
(***************************************************************************)
RECURSIVE WeightedSum(_, _, _)
WeightedSum(zm, weights, names) ==
    IF names = <<>> THEN N(0)
    ELSE QAdd(WeightedSum(zm, weights, Tail(names)),
              QMul(weights[Head(names)], zm[Head(names)]))

ZoneScored == {e \in scoreLog : IsDefined(e.in.zoneMinutes)}

\* C6: zone minutes of 10 in each of z1..z5 score 160 under the weights
\* {1, 1.5, 2.5, 4, 7}; in general the load is the sum over z1..z5 of minutes times
\* weight, with weights strictly increasing from z1 to z5.
C6_ZoneWeightedLoad ==
    LET w == LinkedWeights(rev)
    IN  /\ QLt(w.z1, w.z2) /\ QLt(w.z2, w.z3) /\ QLt(w.z3, w.z4) /\ QLt(w.z4, w.z5)
        /\ \A e \in ZoneScored :
               /\ e.out.method = "zones"
               /\ e.out.loadScore = WeightedSum(Get(e.in.zoneMinutes), w, ZoneNames)
               /\ (/\ w = [z1 |-> N(1), z2 |-> Q(3, 2), z3 |-> Q(5, 2),
                           z4 |-> N(4), z5 |-> N(7)]
                   /\ Get(e.in.zoneMinutes) = TenEach) => Is(e.out.loadScore, 160, 1)

\* C6 witness: ten minutes in every zone were scored with the weights
\* {1, 1.5, 2.5, 4, 7}, giving 160.
C6_Witness ==
    /\ rev = "part_002"
    /\ \E e \in ZoneScored :
           Get(e.in.zoneMinutes) = TenEach /\ Is(e.out.loadScore, 160, 1)

\* C8: zone scoring is linear: zone minutes multiplied by k >= 0 score k times the
\* load, and the sum of two zone-minute records scores the sum of their loads.
C8_ZoneLoadLinear ==
    /\ \A e1 \in ZoneScored, e2 \in ZoneScored, k \in ScaleFactors :
           Get(e2.in.zoneMinutes) = Scale(Get(e1.in.zoneMinutes), k) =>
               e2.out.loadScore = QMul(k, e1.out.loadScore)
    /\ \A e1 \in ZoneScored, e2 \in ZoneScored, e3 \in ZoneScored :
           Get(e3.in.zoneMinutes) = Plus(Get(e1.in.zoneMinutes), Get(e2.in.zoneMinutes)) =>
               e3.out.loadScore = QAdd(e1.out.loadScore, e2.out.loadScore)

\* C8 witness: a record, its multiple by 1.5 and a sum of two records were all scored,
\* with loads that are not zero.
C8_Witness ==
    /\ \E e1 \in ZoneScored, e2 \in ZoneScored :
           /\ Get(e2.in.zoneMinutes) = Scale(Get(e1.in.zoneMinutes), Q(3, 2))
           /\ e1.out.loadScore.num > 0
           /\ e2.out.loadScore = QMul(Q(3, 2), e1.out.loadScore)
    /\ \E e1 \in ZoneScored, e2 \in ZoneScored, e3 \in ZoneScored :
           /\ e1 # e2
           /\ e1.out.loadScore.num > 0 /\ e2.out.loadScore.num > 0
           /\ Get(e3.in.zoneMinutes) = Plus(Get(e1.in.zoneMinutes), Get(e2.in.zoneMinutes))

(***************************************************************************)
(* Properties of zone classification (specification SpecZones).            *)
(***************************************************************************)
Classified == IsDefined(zones)

ZoneTotal(zm) == QAdd(QAdd(QAdd(QAdd(zm.z1, zm.z2), zm.z3), zm.z4), zm.z5)

\* max(0, endTime - startTime) in minutes
RawMinutes(sample) ==
    IF sample.endDate > sample.startDate
    THEN Q(sample.endDate - sample.startDate, 60000) ELSE N(0)

\* the same, with one minute standing in for a duration of zero
CountedMinutes(sample) ==
    IF sample.endDate > sample.startDate
    THEN Q(sample.endDate - sample.startDate, 60000) ELSE N(1)

RECURSIVE SumOver(_, _)
SumOver(ss, i) ==
    IF i = 0 THEN <<N(0), N(0)>>
    ELSE LET rest == SumOver(ss, i - 1)
         IN  <<QAdd(rest[1], RawMinutes(ss[i])), QAdd(rest[2], CountedMinutes(ss[i]))>>

RawTotal == SumOver(samples, Len(samples))[1]
CountedTotal == SumOver(samples, Len(samples))[2]

\* the z1 floor in bpm: the table's when one is supplied, else half of hrMax
Z1Floor == IF IsDefined(zoneConfig) THEN Get(zoneConfig).z1[1] ELSE Q(hrMax, 2)

NoSampleBelowZ1 == \A i \in 1..Len(samples) : QGe(N(samples[i].value), Z1Floor)

NonZeroZones(zm) == {z \in DOMAIN zm : zm[z].num # 0}

\* C9 as stated: the zone minutes sum to at most the samples' durations
\* max(0, endTime - startTime), with equality unless a sample is below the z1 floor
\* (read for a positive hrMax, without which nothing is classified at all).
C9_Original ==
    Classified =>
        /\ QLe(ZoneTotal(Get(zones)), RawTotal)
        /\ (hrMax > 0 /\ NoSampleBelowZ1) => ZoneTotal(Get(zones)) = RawTotal

\* C9 amended: each sample's minutes go to at most one zone, and the zone minutes sum
\* to at most the samples' counted durations, where a sample whose
\* max(0, endTime - startTime) is 0 counts as one minute; for hrMax > 0 the two are
\* equal when no sample's bpm is below the z1 floor.
C9_ZoneTotalWithinCounted ==
    Classified =>
        /\ QLe(ZoneTotal(Get(zones)), CountedTotal)
        /\ Cardinality(NonZeroZones(Get(zones))) <= Len(samples)
        /\ (hrMax > 0 /\ NoSampleBelowZ1) => ZoneTotal(Get(zones)) = CountedTotal

\* C9 witness: a point sample and a sample at the z1 floor were classified, and the
\* zone minutes sum to the counted durations, above the raw ones.
C9_Witness ==
    /\ Classified /\ hrMax > 0 /\ NoSampleBelowZ1
    /\ \E i \in 1..Len(samples) : samples[i].endDate = samples[i].startDate
    /\ \E i \in 1..Len(samples) : N(samples[i].value) = Z1Floor
    /\ ZoneTotal(Get(zones)) = CountedTotal
    /\ QGt(ZoneTotal(Get(zones)), RawTotal)

\* C10: an empty sample list or hrMax <= 0 gives all-zero zone minutes, and no
\* returned zone-minute value is negative.
C10_ZerosAndNonNegative ==
    Classified =>
        /\ (Len(samples) = 0 \/ hrMax <= 0) =>
               \A z \in DOMAIN Get(zones) : Get(zones)[z] = N(0)
        /\ DOMAIN Get(zones) = {"z1", "z2", "z3", "z4", "z5"}
        /\ \A z \in DOMAIN Get(zones) : Get(zones)[z].num >= 0

\* C10 witness: samples whose bpm reaches every floor computed from a negative
\* hrMax were classified, and nothing was counted.
C10_Witness ==
    /\ Classified /\ hrMax < 0 /\ zoneConfig = Undefined
    /\ Len(samples) > 0
    /\ \A z \in DOMAIN Get(zones) : Get(zones)[z] = N(0)

(***************************************************************************)
(* Properties of strategy selection (specification SpecStrategy).          *)
(***************************************************************************)
Given(in, fields) == \A f \in fields : IsDefined(in[f])

TrimpFields == {"avgHeartRate", "restingHeartRate", "hrMax"}

\* what one strategy returns for an input record: its method, its zone minutes
\* and the load its formula gives
ByExplicitZones(in) ==
    [loadScore |-> WeightedSum(Get(in.zoneMinutes), LinkedWeights(rev), ZoneNames),
     zoneMinutes |-> Get(in.zoneMinutes), method |-> "zones"]

BySamples(in) ==
    LET derived == calculateZoneMinutesFromSamples(Get(in.heartRateSamples),
                                                   Get(in.hrMax), in.zoneConfig)
    IN  [loadScore |-> WeightedSum(derived, LinkedWeights(rev), ZoneNames),
         zoneMinutes |-> derived, method |-> "zones"]

ByTrimp(in) ==
    [loadScore |-> calculateTrimpLoad(in.durationMinutes, Get(in.avgHeartRate),
                                      Get(in.restingHeartRate), Get(in.hrMax), in.sex),
     zoneMinutes |-> ZoneMinutes(N(0), N(0), N(0), N(0), N(0)), method |-> "trimp"]

ByRpe(in) ==
    [loadScore |-> calculateRpeLoad(in.durationMinutes,
                                    IF IsDefined(in.rpe) THEN Get(in.rpe) ELSE 5,
                                    in.workoutType),
     zoneMinutes |-> ZoneMinutes(N(0), N(0), N(0), N(0), N(0)), method |-> "rpe"]

\* the precedence, with the condition for the samples strategy left open
Precedence(in, samplesUsable) ==
    IF Given(in, {"zoneMinutes"}) THEN ByExplicitZones(in)
    ELSE IF samplesUsable THEN BySamples(in)
    ELSE IF Given(in, TrimpFields) THEN ByTrimp(in)
    ELSE ByRpe(in)

\* C11 as stated: explicit zone minutes first; else zones from samples when samples
\* and max HR are supplied; else TRIMP when average, resting and max HR are all
\* supplied; else RPE. The method names the strategy whose formula gave the load.
C11_Original ==
    \A e \in scoreLog :
        e.out = Precedence(e.in, Given(e.in, {"heartRateSamples", "hrMax"}))

\* C11, amended: as C11_Original, but the samples strategy is chosen only when the
\* supplied max HR is not 0; with samples and a max HR of 0 the choice falls through
\* to TRIMP or RPE. Zone minutes are all zero for the trimp and rpe methods.
C11_StrategyPrecedence ==
    \A e \in scoreLog :
        /\ e.out = Precedence(e.in, Given(e.in, {"heartRateSamples", "hrMax"})
                                        /\ Get(e.in.hrMax) # 0)
        /\ e.out.method \in {"trimp", "rpe"} =>
               \A z \in DOMAIN e.out.zoneMinutes : e.out.zoneMinutes[z] = N(0)

\* C11 witness: samples, a max HR of 0 and both heart rates were supplied without
\* zone minutes, and the load came from TRIMP.
C11_Witness ==
    \E e \in scoreLog :
        /\ ~Given(e.in, {"zoneMinutes"})
        /\ Given(e.in, {"heartRateSamples", "hrMax"} \cup TrimpFields)
        /\ Get(e.in.hrMax) = 0
        /\ e.out.method = "trimp"

\* the heart-rate-reserve intensity, clamped to [0, 1]
ClampedIntensity(in) ==
    LET i == Q(Get(in.avgHeartRate) - Get(in.restingHeartRate),
               Get(in.hrMax) - Get(in.restingHeartRate))
    IN  IF QLt(i, N(0)) THEN N(0) ELSE IF QGt(i, N(1)) THEN N(1) ELSE i

\* w(i) = C1 * e^(C2 * i), with the constants of the sex given
TrimpWeighting(i, sex) ==
    IF sex = Some("female") THEN QMul(Q(86, 100), expSeries(QMul(Q(167, 100), i)))
    ELSE QMul(Q(64, 100), expSeries(QMul(Q(192, 100), i)))

\* C12: the TRIMP load is 0 when hrMax - restingHeartRate <= 0 or durationMinutes
\* <= 0; otherwise it is duration * i * w(i) with i the reserve intensity clamped
\* to [0, 1], so it is never negative and is 0 when avgHR <= restHR.
C12_TrimpGuardsAndClamp ==
    \A e \in scoreLog : e.out.method = "trimp" =>
        LET in == e.in
            reserve == Get(in.hrMax) - Get(in.restingHeartRate)
        IN  IF reserve <= 0 \/ in.durationMinutes.num <= 0
            THEN e.out.loadScore = N(0)
            ELSE /\ e.out.loadScore =
                        QMul(QMul(in.durationMinutes, ClampedIntensity(in)),
                             TrimpWeighting(ClampedIntensity(in), in.sex))
                 /\ e.out.loadScore.num >= 0
                 /\ Get(in.avgHeartRate) <= Get(in.restingHeartRate) =>
                        e.out.loadScore = N(0)

\* C12 witness: a positive duration and reserve with the average HR below the
\* resting HR, scored by TRIMP as 0.
C12_Witness ==
    \E e \in scoreLog :
        /\ e.out.method = "trimp"
        /\ e.in.durationMinutes.num > 0
        /\ Get(e.in.hrMax) > Get(e.in.restingHeartRate)
        /\ Get(e.in.avgHeartRate) < Get(e.in.restingHeartRate)
        /\ e.out.loadScore = N(0)

\* the multiplier the table names for a workout type, 0.85 for any other
NamedMultiplier(workoutType) ==
    IF ~IsDefined(workoutType) THEN Q(85, 100)
    ELSE LET key == toLowerCase(Get(workoutType))
         IN  CASE key = "running" -> N(1)
               [] key = "cycling" -> Q(9, 10)
               [] key = "swimming" -> Q(95, 100)
               [] key = "strength" -> Q(7, 10)
               [] key = "hiit" -> Q(11, 10)
               [] OTHER -> Q(85, 100)

\* C13: the RPE fallback gives load = durationMinutes * (RPE / 10) * 10 *
\* sportMultiplier, RPE 5 when not supplied, the multiplier found by the lower-cased
\* workout type and 0.85 for a missing or unmatched type (stated for durations >= 0).
C13_RpeLoad ==
    \A e \in scoreLog : (e.out.method = "rpe" /\ e.in.durationMinutes.num >= 0) =>
        LET rpe == IF IsDefined(e.in.rpe) THEN Get(e.in.rpe) ELSE 5
        IN  e.out.loadScore =
                QMul(QMul(QMul(e.in.durationMinutes, Q(rpe, 10)), N(10)),
                     NamedMultiplier(e.in.workoutType))

(***************************************************************************)
(* Properties of the EPOC estimate (specification SpecEpoc).               *)
(***************************************************************************)
Returned(fn) == IsDefined(epocIn) /\ Get(epocIn).fn = fn /\ IsDefined(epocOut)
In == Get(epocIn)
Out == Get(epocOut)

\* a workout counts when its end time is at or after the cutoff
Qualifies(w) == IsDefined(w.endTime) /\ Get(w.endTime) >= In.since

Added(w) == estimateRecoveryHoursAdded(w, In.config)

\* hours from the workout's end to the clock reading, none for an end still ahead
HoursSinceEnd(w) ==
    IF Get(w.endTime) >= In.nowMs THEN N(0)
    ELSE Q(In.nowMs - Get(w.endTime), MsPerHour)

FullyDecayed(w) == QGe(QMul(HoursSinceEnd(w), In.modifier), Added(w))

Contribution(w) ==
    IF FullyDecayed(w) THEN N(0)
    ELSE QSub(Added(w), QMul(HoursSinceEnd(w), In.modifier))

RECURSIVE ContributionSum(_)
ContributionSum(ws) ==
    IF ws = <<>> THEN N(0)
    ELSE IF Qualifies(Head(ws)) THEN QAdd(Contribution(Head(ws)), ContributionSum(Tail(ws)))
    ELSE ContributionSum(Tail(ws))

AllAddedNumbers(ws) ==
    \A i \in 1..Len(ws) : Qualifies(ws[i]) => Added(ws[i]) # NaN

StillOwing(w) == ~(Qualifies(w) /\ FullyDecayed(w))

\* C14: estimateRecoveryRemaining returns the sum over the workouts that ended at
\* or after the cutoff of max(0, added - hoursSinceEnd * modifier); a workout decayed
\* to nothing contributes 0, so leaving it out of the list gives the same result;
\* the result is never negative.
C14_RemainingFlooredPerWorkout ==
    Returned("estimateRecoveryRemaining") =>
        /\ ~(Out # NaN /\ Out.num < 0)
        /\ AllAddedNumbers(In.workouts) =>
               /\ Out = ContributionSum(In.workouts)
               /\ Out = estimateRecoveryRemaining(SelectSeq(In.workouts, StillOwing),
                                                  In.since, In.modifier, In.config,
                                                  In.nowMs)
               /\ Out.num >= 0

\* C14 witness: two workouts counted, one decayed to nothing and one still owing
\* hours, and the result is what the second one owes.
C14_Witness ==
    /\ Returned("estimateRecoveryRemaining")
    /\ Len(In.workouts) = 2
    /\ AllAddedNumbers(In.workouts)
    /\ Qualifies(In.workouts[1]) /\ FullyDecayed(In.workouts[1])
    /\ QGt(QMul(HoursSinceEnd(In.workouts[1]), In.modifier), Added(In.workouts[1]))
    /\ Qualifies(In.workouts[2]) /\ ~FullyDecayed(In.workouts[2])
    /\ Out = Contribution(In.workouts[2])
    /\ Out.num > 0

Positive(q) == q # NaN /\ q # Infinity /\ q.num > 0

\* C15: estimateRecoveryHoursAdded returns 0 when config.vo2Max <= 0 or config.k <= 0
\* and for a workout whose duration is non-positive or not finite; otherwise it
\* returns epocTotal / (vo2Max * k), which is > 0 (stated for a positive fInt).
C15_HoursAddedGuarded ==
    Returned("estimateRecoveryHoursAdded") =>
        LET seconds == In.workout.durationInSeconds
        IN  IF QLe(In.config.vo2Max, N(0)) \/ QLe(In.config.k, N(0)) THEN Out = N(0)
            ELSE IF ~isFinite(seconds) \/ seconds.num <= 0 THEN Out = N(0)
            ELSE Positive(In.config.fInt) => Positive(Out)

\* the latest daily entry exists and lacks the signal
MissingFromLatest(field) ==
    /\ Len(In.dailyMetrics) > 0
    /\ ~IsDefined(In.dailyMetrics[Len(In.dailyMetrics)][field])

\* C16: in calculateRecoveryModifier a signal missing from the latest daily entry
\* gets the neutral factor 1.0, also when earlier days of the 7-day window supply
\* a positive baseline for it.
C16_MissingSignalNeutral ==
    Returned("calculateRecoveryModifier") =>
        /\ MissingFromLatest("sleepInMinutes") => Out.sleepFactor = N(1)
        /\ MissingFromLatest("hrvSdn") => Out.hrvFactor = N(1)
        /\ MissingFromLatest("restingHeartRate") => Out.rhrFactor = N(1)

\* C17: the modifier is the mean of the sleep, HRV, RHR and stress factors and lies
\* in [0.2, 1.5]; the stress factor lies in [0.2, 1].
C17_ModifierMeanAndRange ==
    Returned("calculateRecoveryModifier") =>
        /\ Out.modifier =
               QDiv(QAdd(QAdd(Out.sleepFactor, Out.hrvFactor),
                         QAdd(Out.rhrFactor, Out.stressFactor)), N(4))
        /\ QGe(Out.modifier, Q(2, 10)) /\ QLe(Out.modifier, Q(15, 10))
        /\ QGe(Out.stressFactor, Q(2, 10)) /\ QLe(Out.stressFactor, N(1))

\* C17 witness: more than 300 load points in the last three days after a bad day:
\* the stress factor sits on its floor and every factor on its lowest value.
C17_Witness ==
    /\ Returned("calculateRecoveryModifier")
    /\ Out.recentLoad > 300
    /\ Out.stressFactor = Q(2, 10)
    /\ Out.sleepFactor = Q(5, 10) /\ Out.hrvFactor = Q(2, 10) /\ Out.rhrFactor = Q(8, 10)
    /\ Out.modifier = Q(17, 40)

(***************************************************************************)
(* Further properties of the recovery timeline (specification Spec).       *)
(***************************************************************************)
Breakdown == Get(lastRecoveryState.explanationBreakdown)

\* the recovery rate that the modifiers reported by the update give
ReportedRate ==
    LET three == QMul(QMul(QMul(LinkedBaseRate(rev), Breakdown.sleepModifier),
                           Breakdown.hrvModifier), Breakdown.rhrModifier)
    IN  IF IsDefined(Breakdown.learningModifier)
        THEN QMul(three, Get(Breakdown.learningModifier))
        ELSE three

ElapsedHours ==
    IF Now <= PreviousState.timestamp THEN N(0)
    ELSE Q(Now - PreviousState.timestamp, MsPerHour)

DecayedDebt ==
    LET left == QSub(PreviousState.debtScore, QMul(ElapsedHours, ReportedRate))
    IN  IF left.num < 0 THEN N(0) ELSE left

\* the call traced on the heap
Traces(fn) == IsDefined(heapCall) /\ Get(heapCall).fn = fn
Before == Get(heapCall).before
Result == heap[Get(heapCall).result]
Fresh(ref) == ref > Len(Before)

\* C18: after calculateNewRecoveryState, calculateZoneMinutesFromSamples or
\* calculateWorkoutLoadFromInputs returns, every object that existed before the
\* call (previousState, the dailyMetrics array with its entries, newWorkout, the
\* samples, the inputs and their zone minutes) is as it was, and the object
\* returned did not exist before the call; what is returned is what the function
\* computes from those arguments alone.
C18_ArgumentsUntouched ==
    IsDefined(heapCall) =>
        /\ \A ref \in 1..Len(Before) : heap[ref] = Before[ref]
        /\ Fresh(Get(heapCall).result)
        /\ Traces("calculateNewRecoveryState") =>
               Result = LinkedNewRecoveryState(
                            rev, Before[PreviousStateRef], Before[DailyMetricsRef],
                            IF IsDefined(Get(heapCall).args.newWorkout)
                            THEN Some(Before[NewWorkoutRef]) ELSE Undefined,
                            Get(heapCall).args.now)
        /\ Traces("calculateZoneMinutesFromSamples") =>
               Result = calculateZoneMinutesFromSamples(
                            Before[SamplesRef], Get(heapCall).args.hrMax, Undefined)
        /\ Traces("calculateWorkoutLoadFromInputs") =>
               [Result EXCEPT !.zoneMinutes = heap[@]]
                   = calculateWorkoutLoadFromInputs(rev, Followed(Before, InputsRef))

\* C18 witness: an update with a workout over seven daily entries returned a new
\* snapshot that differs from the previous one, after sorting a copy of the
\* out-of-order resting heart rates on the heap.
C18_Witness ==
    /\ Traces("calculateNewRecoveryState")
    /\ IsDefined(Get(heapCall).args.newWorkout)
    /\ Len(Before[DailyMetricsRef]) = 7
    /\ Before[PreviousStateRef].debtScore.num > 0
    /\ Fresh(Get(heapCall).result)
    /\ Result # Before[PreviousStateRef]
    /\ LET resting == Truthy(Before[DailyMetricsRef], "restingHeartRate")
           sorted == heap[Len(heap) - 1]
       IN  Fresh(Len(heap) - 1) /\ sorted = SortAscending(resting) /\ sorted # resting

C20_LearningBoost ==
    (Called /\ rev = "recovery.ts") =>
        /\ Breakdown.learningModifier =
               Some(IF Len(dailyMetrics) > 0 /\ Len(dailyMetrics) < 7
                    THEN Q(115, 100) ELSE N(1))
        /\ QMul(HoursRemaining,
                QMul(QMul(QMul(QMul(N(6), Breakdown.sleepModifier),
                               Breakdown.hrvModifier), Breakdown.rhrModifier),
                     Get(Breakdown.learningModifier)))
               = (IF QGt(Debt, N(10)) THEN QSub(Debt, N(10)) ELSE N(0))

\* C20 witness: an update with seven daily entries, unboosted, after one with six
\* entries: hours remain, so the rate shows in the result.
C20_Witness ==
    /\ Called /\ rev = "recovery.ts"
    /\ Len(dailyMetrics) = 7
    /\ Breakdown.learningModifier = Some(N(1))
    /\ IsDefined(PreviousState.explanationBreakdown)
    /\ Get(PreviousState.explanationBreakdown).learningModifier = Some(Q(115, 100))
    /\ HoursRemaining.num > 0

(***************************************************************************)
(* Properties of the baselines and modifiers (specification SpecBaselines).*)
(***************************************************************************)
\* the latest daily entry's value of a signal, and the baseline the update computed
LatestValue(f) ==
    IF Len(dailyMetrics) = 0 THEN Undefined ELSE dailyMetrics[Len(dailyMetrics)][f]
Lacks(f) == ~IsDefined(LatestValue(f)) \/ Get(LatestValue(f)) = 0
BaselineOf(f) == Get(call).baselines[f]

\* the latest value against n/d of the baseline, by cross-multiplication
AboveRatio(f, n, d) == Get(LatestValue(f)) * d * BaselineOf(f).den > n * BaselineOf(f).num
BelowRatio(f, n, d) == Get(LatestValue(f)) * d * BaselineOf(f).den < n * BaselineOf(f).num

Neutral(f) == Lacks(f) \/ BaselineOf(f).num = 0
MoreThanOne(q) == q.num > q.den
LessThanOne(q) == q.num < q.den

\* C21: in recovery.ts each modifier comes from the latest entry against its
\* baseline.  Sleep: >= 100 % of the baseline gives a modifier above 1, < 80 % one
\* below 1, else 1.  HRV: above 110 % gives more than 1, below 90 % less than 1,
\* else 1.  Resting HR: above 105 % gives less than 1, below 95 % more than 1,
\* else 1.  A modifier is exactly 1 when the latest entry lacks the value or the
\* baseline is 0.
C21_ModifierBands ==
    (Called /\ rev = "recovery.ts") =>
        /\ Neutral("sleepInMinutes") => Breakdown.sleepModifier = N(1)
        /\ ~Neutral("sleepInMinutes") =>
               IF ~BelowRatio("sleepInMinutes", 1, 1)
               THEN MoreThanOne(Breakdown.sleepModifier)
               ELSE IF BelowRatio("sleepInMinutes", 8, 10)
               THEN LessThanOne(Breakdown.sleepModifier)
               ELSE Breakdown.sleepModifier = N(1)
        /\ Neutral("hrvSdn") => Breakdown.hrvModifier = N(1)
        /\ ~Neutral("hrvSdn") =>
               IF AboveRatio("hrvSdn", 11, 10)
               THEN MoreThanOne(Breakdown.hrvModifier)
               ELSE IF BelowRatio("hrvSdn", 9, 10)
               THEN LessThanOne(Breakdown.hrvModifier)
               ELSE Breakdown.hrvModifier = N(1)
        /\ Neutral("restingHeartRate") => Breakdown.rhrModifier = N(1)
        /\ ~Neutral("restingHeartRate") =>
               IF AboveRatio("restingHeartRate", 105, 100)
               THEN LessThanOne(Breakdown.rhrModifier)
               ELSE IF BelowRatio("restingHeartRate", 95, 100)
               THEN MoreThanOne(Breakdown.rhrModifier)
               ELSE Breakdown.rhrModifier = N(1)

\* C21 witness: the latest entry sits exactly on 80 % of the sleep baseline, 90 % of
\* the HRV baseline and 105 % of the resting-HR baseline: all three modifiers are 1.
C21_Witness ==
    /\ Called /\ rev = "recovery.ts"
    /\ Len(dailyMetrics) = 4
    /\ dailyMetrics[4] = Metric(Some(400), Some(45), Some(63))
    /\ BaselineOf("sleepInMinutes") = N(500)
    /\ BaselineOf("hrvSdn") = N(50)
    /\ BaselineOf("restingHeartRate") = N(60)
    /\ Breakdown.sleepModifier = N(1)
    /\ Breakdown.hrvModifier = N(1)
    /\ Breakdown.rhrModifier = N(1)

\* the entries that count for a baseline: among the last 28, those whose value is
\* present and not 0
Window(f) ==
    {i \in 1..Len(dailyMetrics) :
        /\ i > Len(dailyMetrics) - 28
        /\ IsDefined(dailyMetrics[i][f])
        /\ Get(dailyMetrics[i][f]) # 0}
ValueAt(f, i) == Get(dailyMetrics[i][f])

\* the k-th smallest of those values, counted with repetitions
KthSmallest(f, k) ==
    CHOOSE x \in {ValueAt(f, i) : i \in Window(f)} :
        /\ Cardinality({i \in Window(f) : ValueAt(f, i) < x}) < k
        /\ k <= Cardinality({i \in Window(f) : ValueAt(f, i) <= x})

MedianOfWindow(f) ==
    LET n == Cardinality(Window(f))
    IN  IF n = 0 THEN N(0)
        ELSE IF n % 2 = 1 THEN N(KthSmallest(f, (n + 1) \div 2))
        ELSE Q(KthSmallest(f, n \div 2) + KthSmallest(f, n \div 2 + 1), 2)

\* C22: each baseline is the median of the signal's present, non-zero values over
\* the last 28 daily entries: the middle value for an odd count, the mean of the two
\* central values for an even count, 0 when no value remains; older entries do not
\* count.
C22_BaselineIsWindowMedian ==
    Called => \A f \in SignalNames : BaselineOf(f) = MedianOfWindow(f)

\* C22 witness: 29 entries, the oldest (100 minutes of sleep) outside the window;
\* the 28 counted values are 14 times 300 and 14 times 500, and the baseline is
\* their mean 400, where the 29 values would give 300.
C22_Witness ==
    /\ Called
    /\ Len(dailyMetrics) = 29
    /\ ValueAt("sleepInMinutes", 1) = 100
    /\ Cardinality(Window("sleepInMinutes")) = 28
    /\ BaselineOf("sleepInMinutes") = N(400)

(***************************************************************************)
(* Properties of two callers (specification SpecTwin).                     *)
(***************************************************************************)
TwinPrevious == Get(twin).previousState
TwinReturned == Get(twin).returned

\* C23: two previous states that agree on timestamp and debtScore, whatever their
\* explanationBreakdown, status, recoveryHoursRemaining and readyForHardTrainingAt,
\* give the same result for the same now, dailyMetrics and newWorkout.
C23_OnlyTimestampAndDebtRead ==
    (Called /\ IsDefined(twin)) =>
        ((TwinPrevious.timestamp = PreviousState.timestamp
          /\ TwinPrevious.debtScore = PreviousState.debtScore)
            => TwinReturned = Some(lastRecoveryState))

\* C23 witness: the two previous states carry a debt, agree on it and on the
\* timestamp and differ in all four other fields; the update, ten hours on with a
\* workout and a history that moves the modifiers, returned a state with debt.
C23_Witness ==
    /\ Called /\ IsDefined(twin)
    /\ TwinPrevious.timestamp = PreviousState.timestamp
    /\ TwinPrevious.debtScore = PreviousState.debtScore
    /\ PreviousState.debtScore.num > 0
    /\ TwinPrevious.explanationBreakdown # PreviousState.explanationBreakdown
    /\ TwinPrevious.status # PreviousState.status
    /\ TwinPrevious.recoveryHoursRemaining # PreviousState.recoveryHoursRemaining
    /\ TwinPrevious.readyForHardTrainingAt # PreviousState.readyForHardTrainingAt
    /\ IsDefined(NewWorkout) /\ Now > PreviousState.timestamp
    /\ Len(dailyMetrics) = 2
    /\ Debt.num > 0
    /\ TwinReturned = Some(lastRecoveryState)

ReadyAt == lastRecoveryState.readyForHardTrainingAt

\* a / b < c / d for a, c >= 0 and b, d > 0, by comparing whole parts and then the
\* reciprocals of the fractions: no product is formed
RECURSIVE LessFraction(_, _, _, _)
LessFraction(a, b, c, d) ==
    IF a \div b # c \div d THEN a \div b < c \div d
    ELSE IF c % d = 0 THEN FALSE
    ELSE IF a % b = 0 THEN TRUE
    ELSE LessFraction(d, c % d, b, a % b)

\* the hours remaining against a number of milliseconds
RemainingBelowMs(k) == LessFraction(HoursRemaining.num, HoursRemaining.den, k, MsPerHour)
RemainingAboveMs(k) == LessFraction(k, MsPerHour, HoursRemaining.num, HoursRemaining.den)

\* readyForHardTrainingAt, in milliseconds after the state's timestamp
ReadyAfterMs == Get(ReadyAt) - lastRecoveryState.timestamp

\* C24 as stated: in recovery.ts readyForHardTrainingAt is present exactly when
\* recoveryHoursRemaining > 0, then equals the timestamp plus the hours remaining
\* and is strictly later than the timestamp, and is absent exactly when the status
\* is green.
C24_Original ==
    (Called /\ rev = "recovery.ts") =>
        /\ IsDefined(ReadyAt) <=> HoursRemaining.num > 0
        /\ IsDefined(ReadyAt) =>
               /\ ReadyAfterMs >= 0
               /\ ~RemainingBelowMs(ReadyAfterMs) /\ ~RemainingAboveMs(ReadyAfterMs)
               /\ Get(ReadyAt) > lastRecoveryState.timestamp
        /\ ~IsDefined(ReadyAt) <=> lastRecoveryState.status = "green"

\* C24, amended: in recovery.ts readyForHardTrainingAt is present exactly when
\* recoveryHoursRemaining > 0; when present it is never earlier than the timestamp
\* and lies within one millisecond of the timestamp plus the hours remaining; it is
\* absent exactly when the status is green.
C24_ReadyAtToTheMillisecond ==
    (Called /\ rev = "recovery.ts") =>
        /\ IsDefined(ReadyAt) <=> HoursRemaining.num > 0
        /\ IsDefined(ReadyAt) =>
               /\ ReadyAfterMs >= 0
               /\ RemainingBelowMs(ReadyAfterMs + 1)
               /\ ReadyAfterMs > 0 => RemainingAboveMs(ReadyAfterMs - 1)
        /\ ~IsDefined(ReadyAt) <=> lastRecoveryState.status = "green"

\* C24 witness: 5.217 seconds after a snapshot with debt 10.01 the debt is still
\* above 10 and the status yellow, less than a millisecond remains, and
\* readyForHardTrainingAt is the timestamp itself.
C24_Witness ==
    /\ Called /\ rev = "recovery.ts"
    /\ PreviousState.debtScore = Q(1001, 100)
    /\ Now = PreviousState.timestamp + 5217
    /\ lastRecoveryState.status = "yellow"
    /\ HoursRemaining.num > 0
    /\ RemainingBelowMs(1)
    /\ ReadyAt = Some(lastRecoveryState.timestamp)

(***************************************************************************)
(* The bands of the recovery modifier (specification SpecEpoc).            *)
(***************************************************************************)
\* the latest daily entry carries the signal
LatestHas(field) ==
    /\ Len(In.dailyMetrics) > 0
    /\ IsDefined(In.dailyMetrics[Len(In.dailyMetrics)][field])

LatestOf(field) == N(Get(In.dailyMetrics[Len(In.dailyMetrics)][field]))

\* the median of the signal's usable values over the last seven entries
WeekBaseline(field) == median_epoc(Truthy(SliceLast(In.dailyMetrics, 7), field))

\* the latest value is at least (at most, below) the given percentage of the baseline
AtLeastPercent(field, pct) ==
    QGe(QMul(LatestOf(field), N(100)), QMul(WeekBaseline(field), N(pct)))
AtMostPercent(field, pct) ==
    QLe(QMul(LatestOf(field), N(100)), QMul(WeekBaseline(field), N(pct)))
BelowPercent(field, pct) == ~AtLeastPercent(field, pct)

\* the workouts whose start is no more than three days before the clock reading
StartedRecently(i) ==
    /\ IsDefined(In.workoutSummaries[i].startTime)
    /\ Get(In.workoutSummaries[i].startTime) >= In.now - 72 * MsPerHour

RECURSIVE LoadOfRecent(_)
LoadOfRecent(i) ==
    IF i = 0 THEN N(0)
    ELSE QAdd(LoadOfRecent(i - 1),
              IF StartedRecently(i) /\ IsDefined(In.workoutSummaries[i].loadScore)
              THEN Get(In.workoutSummaries[i].loadScore)
              ELSE N(0))

RecentLoadTotal == LoadOfRecent(Len(In.workoutSummaries))

\* C25: calculateRecoveryModifier maps the latest entry against the baselines by
\* bands with inclusive boundaries: sleep at least 120 percent of the baseline gives
\* 1.5, at least 100 percent 1.2, below 70 percent 0.5, else 1.0; HRV at least 105
\* percent gives 1.2, at most 80 percent 0.2, else 1.0; resting heart rate at most
\* 95 percent gives 1.1, at least 105 percent 0.8, else 1.0; the stress factor is
\* 1 - recentLoad / 300 kept within [0.2, 1], recentLoad being the sum of the loads
\* of the workouts that started within the last three days.
C25_ModifierBands ==
    Returned("calculateRecoveryModifier") =>
        /\ (LatestHas("sleepInMinutes") /\ Positive(WeekBaseline("sleepInMinutes"))) =>
               Out.sleepFactor =
                   IF AtLeastPercent("sleepInMinutes", 120) THEN Q(15, 10)
                   ELSE IF AtLeastPercent("sleepInMinutes", 100) THEN Q(12, 10)
                   ELSE IF BelowPercent("sleepInMinutes", 70) THEN Q(5, 10)
                   ELSE N(1)
        /\ (LatestHas("hrvSdn") /\ Positive(WeekBaseline("hrvSdn"))) =>
               Out.hrvFactor =
                   IF AtLeastPercent("hrvSdn", 105) THEN Q(12, 10)
                   ELSE IF AtMostPercent("hrvSdn", 80) THEN Q(2, 10)
                   ELSE N(1)
        /\ (LatestHas("restingHeartRate") /\ Positive(WeekBaseline("restingHeartRate"))) =>
               Out.rhrFactor =
                   IF AtMostPercent("restingHeartRate", 95) THEN Q(11, 10)
                   ELSE IF AtLeastPercent("restingHeartRate", 105) THEN Q(8, 10)
                   ELSE N(1)
        /\ Out.stressFactor =
               IF QGe(RecentLoadTotal, N(240)) THEN Q(2, 10)
               ELSE IF QLe(RecentLoadTotal, N(0)) THEN N(1)
               ELSE QSub(N(1), QDiv(RecentLoadTotal, N(300)))

\* C25 witness: the latest day sits exactly on the upper sleep boundary, the upper
\* HRV boundary and the lower resting heart rate boundary; one workout started
\* exactly three days ago and counts, one a millisecond earlier and does not.
C25_Witness ==
    /\ Returned("calculateRecoveryModifier")
    /\ In.dailyMetrics = <<EpocBaseDay, EpocBaseDay, EpocBaseDay,
                           Metric(Some(600), Some(63), Some(57))>>
    /\ In.workoutSummaries = <<StartedAtCutoff, StartedBeforeCutoff>>
    /\ Out.sleepFactor = Q(15, 10)
    /\ Out.hrvFactor = Q(12, 10)
    /\ Out.rhrFactor = Q(11, 10)
    /\ Out.recentLoad = 240
    /\ Out.stressFactor = Q(2, 10)

(***************************************************************************)
(* How a sample finds its zone (specification SpecZones).                  *)
(***************************************************************************)
\* the floor of zone k in bpm: the table's lower bound when a table is supplied,
\* else 50, 60, 70, 80, 90 percent of hrMax
FloorOf(k) ==
    IF IsDefined(zoneConfig) THEN Get(zoneConfig)[ZoneNames[k]][1]
    ELSE Q(hrMax * (4 + k), 10)

\* the zones whose floor the sample's bpm reaches
ReachedBy(i) == {k \in 1..5 : QLe(FloorOf(k), N(samples[i].value))}

\* the highest of them, 0 when there is none
HighestReached(i) ==
    IF ReachedBy(i) = {} THEN 0
    ELSE CHOOSE k \in ReachedBy(i) : \A j \in ReachedBy(i) : j <= k

RECURSIVE MinutesIn(_, _)
MinutesIn(k, i) ==
    IF i = 0 THEN N(0)
    ELSE QAdd(MinutesIn(k, i - 1),
              IF HighestReached(i) = k THEN CountedMinutes(samples[i]) ELSE N(0))

AscendingFloors == \A k \in 1..4 : QLe(FloorOf(k), FloorOf(k + 1))

\* C26: calculateZoneMinutesFromSamples gives each sample's whole duration to the
\* highest zone whose floor is at most the sample's bpm, whatever the upper bounds
\* (a bpm above 100 percent of hrMax is z5); a sample below the z1 floor of an
\* ascending table counts nowhere; without a table the floors are 50, 60, 70, 80
\* and 90 percent of hrMax.
C26_HighestFloorReached ==
    (Classified /\ hrMax > 0) =>
        /\ \A k \in 1..5 : Get(zones)[ZoneNames[k]] = MinutesIn(k, Len(samples))
        /\ (AscendingFloors
              /\ \A i \in 1..Len(samples) : QLt(N(samples[i].value), FloorOf(1))) =>
               Get(zones) = createEmptyZones

\* C26 witness: no table, hrMax 180; two minutes at 89 bpm, below the z1 floor of 90,
\* are dropped and three minutes at 210 bpm, above hrMax, are counted in z5.
C26_Witness ==
    /\ Classified /\ hrMax = 180 /\ zoneConfig = Undefined
    /\ samples = <<Sample(0, 120000, 89), Sample(0, 180000, 210)>>
    /\ Get(zones) = [createEmptyZones EXCEPT !.z5 = N(3)]

(***************************************************************************)
(* The recovery rate never vanishes (specification Spec).                  *)
(***************************************************************************)
\* the rate the update computed: that of the history it was called with
RateOfCall == LinkedEffectiveRate(rev, dailyMetrics)

\* the debt above which hours remain: the yellow threshold in recovery.ts, none in
\* the earlier revision
HoursFloor == IF rev = "recovery.ts" THEN DEBT_THRESHOLDS.YELLOW ELSE N(0)

\* C27: the effective recovery rate that calculateNewRecoveryState computes is
\* strictly positive for every input, so recoveryHoursRemaining is a finite number:
\* the quotient of the debt still to recover and that rate.
C27_RatePositiveHoursFinite ==
    Called =>
        /\ Positive(RateOfCall)
        /\ RateOfCall = ReportedRate
        /\ isFinite(HoursRemaining) /\ HoursRemaining # NaN
        /\ QMul(HoursRemaining, RateOfCall) = QMax(N(0), QSub(Debt, HoursFloor))

\* C27 witness: a poor day after a good one puts the sleep, HRV and resting heart
\* rate modifiers at their lowest: the rate is below the base rate, and hours remain.
C27_Witness ==
    /\ Called /\ rev = "recovery.ts"
    /\ Breakdown.sleepModifier = MODIFIERS.SLEEP.POOR_MODIFIER
    /\ Breakdown.hrvModifier = MODIFIERS.HRV.LOW_MODIFIER
    /\ Breakdown.rhrModifier = MODIFIERS.RHR.HIGH_MODIFIER
    /\ QLt(RateOfCall, BASE_RECOVERY_RATE_PER_HOUR)
    /\ Positive(HoursRemaining)

(***************************************************************************)
(* core/hooks/useRecoveryState.ts, lines 1-355: the hook that fetches the  *)
(* health data and refreshes the stored recovery state.                    *)
(*                                                                         *)
(* processNewData is an async function: it runs without interruption from  *)
(* one await to the next, so the model has one action for its start and    *)
(* one for the continuation after each await.  The appData and             *)
(* isHealthKitAvailable it reads are those of the render that created the  *)
(* function, that is, the state at the time of the call.                   *)
(***************************************************************************)
MsPerDay == 24 * MsPerHour

\* formatDateKey: the UTC day of a time
formatDateKey(t) == t \div MsPerDay

RECURSIVE Ascending(_)
Ascending(S) ==
    IF S = {} THEN <<>>
    ELSE LET least == CHOOSE x \in S : \A y \in S : x <= y
         IN  <<least>> \o Ascending(S \ {least})

\* the value of the last sample of the day, Undefined when the day has none
LastOfDay(ss, day) ==
    LET at == {i \in 1..Len(ss) : formatDateKey(ss[i].startDate) = day}
    IN  IF at = {} THEN Undefined
        ELSE Some(ss[CHOOSE i \in at : \A j \in at : j <= i].value)

sleepMinutes(sample) == (sample.endDate - sample.startDate) \div (1000 * 60)

RECURSIVE MinutesOfDay(_, _)
MinutesOfDay(ss, day) ==
    IF ss = <<>> THEN 0
    ELSE MinutesOfDay(Tail(ss), day)
         + (IF formatDateKey(Head(ss).startDate) = day /\ sleepMinutes(Head(ss)) > 0
            THEN sleepMinutes(Head(ss)) ELSE 0)

\* one entry per day that has a sample, in the order of the days; the samples of the
\* model last whole minutes
aggregateDailyMetrics(rhrSamples, hrvSamples, sleepSamples) ==
    LET slept == SelectSeq(sleepSamples, LAMBDA s : sleepMinutes(s) > 0)
        keys == Ascending({formatDateKey(rhrSamples[i].startDate) : i \in 1..Len(rhrSamples)}
                          \cup {formatDateKey(hrvSamples[i].startDate) : i \in 1..Len(hrvSamples)}
                          \cup {formatDateKey(slept[i].startDate) : i \in 1..Len(slept)})
    IN  [k \in 1..Len(keys) |->
            Metric(IF MinutesOfDay(slept, keys[k]) > 0
                   THEN Some(MinutesOfDay(slept, keys[k])) ELSE Undefined,
                   LastOfDay(hrvSamples, keys[k]),
                   LastOfDay(rhrSamples, keys[k]))]

RECURSIVE totalValue(_)
totalValue(ss) == IF ss = <<>> THEN 0 ELSE Head(ss).value + totalValue(Tail(ss))

getAverageHeartRate(ss) ==
    IF Len(ss) = 0 THEN Undefined ELSE Some(Q(totalValue(ss), Len(ss)))

\* what Promise.race([promise, timeoutPromise]) settles as, given what the promise
\* does on its own: it resolves, it rejects, or it stays pending and the timer rejects
withTimeout_noTimer(promise) == promise

withTimeout(promise) == IF promise = "pending" THEN "timedOut" ELSE promise

\* the ways a raced call can settle; hung says that the call itself never settles
Settlements(hung) ==
    {withTimeout(promise) :
        promise \in IF hung THEN {"pending"} ELSE {"resolved", "rejected"}} \ {"pending"}

\* safeFetch: the fetched value, or an empty list and an entry in errors
safeFetch(settled, value) ==
    IF settled = "resolved" THEN [result |-> value, errors |-> {}]
    ELSE [result |-> <<>>, errors |-> {settled}]

\* setAppData(prevData => ({...prevData, workoutSummaries, dailyMetrics,
\* lastRecoveryState})); mutant: a stored state that already carries a breakdown kept
setAppData_firstWins(prevData, newWorkoutSummaries, newDailyMetrics, newState) ==
    [prevData EXCEPT !.workoutSummaries = newWorkoutSummaries,
                     !.dailyMetrics = newDailyMetrics,
                     !.lastRecoveryState =
                         IF IsDefined(@.explanationBreakdown) THEN @ ELSE newState]

setAppData(prevData, newWorkoutSummaries, newDailyMetrics, newState) ==
    [prevData EXCEPT !.workoutSummaries = newWorkoutSummaries,
                     !.dailyMetrics = newDailyMetrics,
                     !.lastRecoveryState = newState]

\* the workouts that ended after the previous state was computed
newWorkouts(newWorkoutSummaries, lastUpdate) ==
    SelectSeq(newWorkoutSummaries, LAMBDA workout : workout.endTime > lastUpdate)

RECURSIVE addedLoad(_)
addedLoad(ws) ==
    IF ws = <<>> THEN N(0) ELSE QAdd(addedLoad(Tail(ws)), Head(ws).loadScore)

workoutForState(load) ==
    IF QGt(load, N(0))
    THEN Some([type |-> "batch", zoneMinutes |-> createEmptyZones, loadScore |-> load])
    ELSE Undefined

\* one entry of newWorkoutSummaries; appData.userProfile carries no hrMax
WorkoutSummary(w, heartRateSamples, rhrSamples) ==
    LET durationInSeconds == Q(w.endDate - w.startDate, 1000)
        durationMinutes == QDiv(durationInSeconds, N(60))
        normalized == SelectSeq(heartRateSamples, LAMBDA sample : sample.value > 0)
        loadResult ==
            calculateWorkoutLoadFromInputs("recovery.ts",
                LoadInputs(Undefined, Some(normalized), Undefined, durationMinutes,
                           getAverageHeartRate(normalized),
                           LastOfDay(rhrSamples, formatDateKey(w.startDate)),
                           Undefined, Undefined, Some(w.activityName)))
    IN  [id |-> w.uuid, type |-> w.activityName, startTime |-> w.startDate,
         endTime |-> w.endDate, durationInSeconds |-> durationInSeconds,
         zoneMinutes |-> loadResult.zoneMinutes, loadScore |-> loadResult.loadScore]

(***************************************************************************)
(* The health store and the runs of the hook.                              *)
(***************************************************************************)
\* one night of sleep that ended when the hook was created; no resting heart rate
\* and no HRV samples; heart-rate samples for the hour of the workout
SleepSamples == <<[startDate |-> -8 * MsPerHour, endDate |-> 0, value |-> "ASLEEP"]>>
RestingHeartRateSamples == <<>>
HrvSamples == <<>>
HeartRateSamples == <<Sample(0, MsPerHour, 150)>>

\* an hour's run that ends an hour after the hook's first snapshot
RecordedWorkouts ==
    {[uuid |-> "w1", activityName |-> "Running", startDate |-> 0, endDate |-> MsPerHour]}

Uuids == {w.uuid : w \in RecordedWorkouts}

RECURSIVE ByStart(_)
ByStart(S) ==
    IF S = {} THEN <<>>
    ELSE LET first == CHOOSE w \in S : \A v \in S : w.startDate <= v.startDate
         IN  <<first>> \o ByStart(S \ {first})

\* what the health store answers to each fetch
Stored(stage) ==
    CASE stage = "rhr" -> RestingHeartRateSamples
      [] stage = "sleep" -> SleepSamples
      [] stage = "hrv" -> HrvSamples
      [] stage = "workouts" -> ByStart(healthKit.workouts)

NextStage(stage) ==
    CASE stage = "rhr" -> "sleep"
      [] stage = "sleep" -> "hrv"
      [] stage = "hrv" -> "workouts"
      [] stage = "workouts" -> "heartRate"

(***************************************************************************)
(* The two calculations of a refresh, tabulated over every argument a run  *)
(* of the hook can pass them: the health store holds the samples above,    *)
(* any fetch may come back empty, and the clock reads one of Times.        *)
(***************************************************************************)
Times == {h * MsPerHour : h \in 0..MaxClockHours}

\* loadResult and the summary of line 265-290, for each workout and each outcome of
\* its heart-rate fetch and of the resting heart-rate fetch
summaryOf ==
    [w \in RecordedWorkouts, heartRateSamples \in {<<>>, HeartRateSamples},
     rhrSamples \in {<<>>, RestingHeartRateSamples} |->
        WorkoutSummary(w, heartRateSamples, rhrSamples)]

MetricsChoices ==
    {aggregateDailyMetrics(rhrSamples, hrvSamples, sleepSamples) :
        rhrSamples \in {<<>>, RestingHeartRateSamples},
        hrvSamples \in {<<>>, HrvSamples},
        sleepSamples \in {<<>>, SleepSamples}}

SummaryLists ==
    {[k \in 1..Len(ws) |-> summaryOf[ws[k], heartRateSamples, rhrSamples]] :
        ws \in {ByStart(S) : S \in SUBSET RecordedWorkouts},
        heartRateSamples \in {<<>>, HeartRateSamples},
        rhrSamples \in {<<>>, RestingHeartRateSamples}}

\* step 3 of processNewData (line 295-317): the workouts that are new, the batch
\* that stands for them, the ids whose load the batch carries, and the new state
recalculation(previousState, newWorkoutSummaries, newDailyMetrics, now) ==
    LET fresh == newWorkouts(newWorkoutSummaries, previousState.timestamp)
        batch == workoutForState(addedLoad(fresh))
    IN  [newWorkouts |-> fresh,
         workoutForState |-> batch,
         counted |-> IF IsDefined(batch)
                     THEN {fresh[k].id : k \in {j \in 1..Len(fresh) :
                                                    QGt(fresh[j].loadScore, N(0))}}
                     ELSE {},
         newState |-> calculateNewRecoveryState(previousState, newDailyMetrics, batch, now)]

\* the states the hook can hold after n refreshes
RECURSIVE StoredStates(_)
StoredStates(n) ==
    IF n = 0 THEN {InitialRecoveryState}
    ELSE LET before == StoredStates(n - 1)
         IN  before \cup
             {recalculation(previousState, newWorkoutSummaries, newDailyMetrics,
                            now).newState :
                 previousState \in before, newWorkoutSummaries \in SummaryLists,
                 newDailyMetrics \in MetricsChoices, now \in Times}

PreviousStates == StoredStates(MaxRefreshes - 1)

recalculated ==
    [previousState \in PreviousStates, newWorkoutSummaries \in SummaryLists,
     newDailyMetrics \in MetricsChoices, now \in Times |->
        recalculation(previousState, newWorkoutSummaries, newDailyMetrics, now)]

Invocations == {"first", "second"}

\* pc: "idle" before the call, "returned" after the guard's return, "init" while
\* initializeHealthKit is awaited, "rhr", "sleep", "hrv", "workouts" while that
\* fetch is awaited, "heartRate" while the workouts are processed, "done" after the
\* finally block.  errors holds the kinds of entries of the errors array.
\* started, overlaps, ended and included are history: the number of this call among
\* the calls of processNewData, the number of the call that was running when this
\* one started (0 if none), its place among the calls that have ended, and the
\* counts of the snapshot it started from.
IdleInvocation ==
    [pc |-> "idle", hung |-> FALSE, lastRecoveryState |-> Undefined,
     rhr |-> <<>>, sleep |-> <<>>, hrv |-> <<>>, workouts |-> <<>>, errors |-> {},
     newState |-> Undefined, started |-> 0, overlaps |-> 0, ended |-> 0,
     included |-> <<>>]

Running(i) == invocation[i].pc \in {"init", "rhr", "sleep", "hrv", "workouts", "heartRate"}

\* the other of the two invocations
Other(i) == CHOOSE j \in Invocations : j # i

\* invocation i after its finally block
Ended(i, errors, newState) ==
    [IdleInvocation EXCEPT !.pc = "done",
                           !.lastRecoveryState = invocation[i].lastRecoveryState,
                           !.errors = errors, !.newState = newState,
                           !.started = invocation[i].started,
                           !.overlaps = invocation[i].overlaps,
                           !.ended = invocation[Other(i)].ended + 1,
                           !.included = invocation[i].included]

besideHook == <<rev, call, calls, zoneVars, loadVars, epocVars, heapVars, twinVars>>

InitHook ==
    /\ rev = "recovery.ts" /\ IdleRecovery /\ IdleZones /\ IdleLoad /\ IdleEpoc
    /\ IdleHeap /\ IdleTwin
    /\ healthKit \in [moduleAvailable : BOOLEAN, workouts : {{}}]
    /\ isLoading = FALSE /\ error = Undefined
    /\ isHealthKitAvailable = healthKit.moduleAvailable
    /\ summaries = <<>> /\ clock = 0 /\ refreshes = 0
    /\ invocation = [i \in Invocations |-> IdleInvocation]
    /\ included = [u \in Uuids |-> 0]

\* processNewData(options) up to its first await
Begin(i, force) ==
    /\ ~Running(i) /\ refreshes < MaxRefreshes
    /\ i = "second" => Running("first")
    /\ refreshes' = refreshes + 1
    /\ IF ~force /\ ~isHealthKitAvailable
       THEN /\ invocation' = [invocation EXCEPT ![i] = [IdleInvocation EXCEPT !.pc = "returned"]]
            /\ UNCHANGED <<isLoading, error, isHealthKitAvailable>>
       ELSE IF ~healthKit.moduleAvailable
       THEN /\ isLoading' = FALSE
            /\ error' = Some("HealthKit ist auf diesem Geraet nicht verfuegbar.")
            /\ isHealthKitAvailable' = FALSE
            /\ invocation' =
                   [invocation EXCEPT ![i] = [IdleInvocation EXCEPT !.pc = "done"]]
       ELSE /\ isLoading' = TRUE
            /\ error' = Undefined
            /\ \E hung \in BOOLEAN :
                   invocation' =
                       [invocation EXCEPT ![i] =
                           [IdleInvocation EXCEPT
                               !.pc = "init", !.hung = hung,
                               !.lastRecoveryState = Some(lastRecoveryState),
                               !.included = included,
                               !.started = refreshes + 1,
                               !.overlaps = IF Running(Other(i))
                                            THEN invocation[Other(i)].started ELSE 0]]
            /\ UNCHANGED isHealthKitAvailable
    /\ UNCHANGED <<lastRecoveryState, dailyMetrics, summaries, clock, healthKit,
                   included, besideHook>>

\* the continuation after await withTimeout(initializeHealthKit(), 15000, ..)
InitSettles(i) ==
    /\ invocation[i].pc = "init"
    /\ \E settled \in Settlements(invocation[i].hung), didInit \in BOOLEAN, hung \in BOOLEAN :
           IF settled = "resolved" /\ didInit
           THEN /\ isHealthKitAvailable' = TRUE
                /\ invocation' = [invocation EXCEPT ![i].pc = "rhr", ![i].hung = hung]
                /\ UNCHANGED <<isLoading, error>>
           ELSE /\ isHealthKitAvailable' =
                       IF settled = "resolved" THEN FALSE ELSE isHealthKitAvailable
                /\ error' =
                       Some(CASE settled = "resolved" ->
                                     "HealthKit konnte nicht initialisiert werden."
                              [] settled = "timedOut" ->
                                     "HealthKit-Initialisierung zu lange (15s)"
                              [] OTHER -> "Daten konnten nicht verarbeitet werden.")
                /\ isLoading' = FALSE
                /\ invocation' =
                       [invocation EXCEPT ![i] = Ended(i, {}, Undefined)]
    /\ UNCHANGED <<lastRecoveryState, dailyMetrics, summaries, clock, healthKit,
                   refreshes, included, besideHook>>

\* the continuation after an awaited safeFetch of resting heart rate, sleep, HRV or
\* workouts; the heart-rate fetch that follows the workouts is only made for a workout
FetchSettles(i) ==
    LET inv == invocation[i]
    IN  /\ inv.pc \in {"rhr", "sleep", "hrv", "workouts"}
        /\ \E settled \in Settlements(inv.hung), hung \in BOOLEAN :
               LET fetched == safeFetch(settled, Stored(inv.pc))
               IN  /\ (inv.pc = "workouts" /\ fetched.result = <<>>) => ~hung
                   /\ invocation' =
                          [invocation EXCEPT ![i] =
                              [inv EXCEPT ![inv.pc] = fetched.result,
                                          !.errors = @ \cup fetched.errors,
                                          !.pc = NextStage(inv.pc),
                                          !.hung = hung]]
        /\ UNCHANGED <<lastRecoveryState, dailyMetrics, summaries, isLoading, error,
                       isHealthKitAvailable, clock, healthKit, refreshes, included,
                       besideHook>>

\* the continuation after await Promise.all(..): the heart-rate fetches have settled,
\* the summaries are built, the state is recalculated and stored, finally runs
WorkoutsProcessed(i) ==
    LET inv == invocation[i]
    IN  /\ inv.pc = "heartRate"
        /\ \E settled \in Settlements(inv.hung) :
           \E heartRate \in {IF inv.workouts = <<>> THEN safeFetch("resolved", <<>>)
                             ELSE safeFetch(settled, HeartRateSamples)} :
           \E newDailyMetrics \in {aggregateDailyMetrics(inv.rhr, inv.hrv, inv.sleep)} :
           \E newWorkoutSummaries \in
                  {[k \in 1..Len(inv.workouts) |->
                       summaryOf[inv.workouts[k], heartRate.result, inv.rhr]]} :
           \E step \in {recalculated[Get(inv.lastRecoveryState), newWorkoutSummaries,
                                     newDailyMetrics, clock]} :
           \E data \in {setAppData([workoutSummaries |-> summaries,
                                    dailyMetrics |-> dailyMetrics,
                                    lastRecoveryState |-> lastRecoveryState],
                                   newWorkoutSummaries, newDailyMetrics, step.newState)} :
               /\ summaries' = data.workoutSummaries
               /\ dailyMetrics' = data.dailyMetrics
               /\ lastRecoveryState' = data.lastRecoveryState
               /\ included' =
                      IF data.lastRecoveryState # step.newState THEN included
                      ELSE [u \in Uuids |->
                              inv.included[u] + (IF u \in step.counted THEN 1 ELSE 0)]
               /\ error' =
                      IF inv.errors \cup heartRate.errors # {} /\ inv.workouts = <<>>
                         /\ inv.rhr = <<>> /\ inv.hrv = <<>> /\ inv.sleep = <<>>
                      THEN Some("HealthKit liefert keine Daten.")
                      ELSE error
               /\ isLoading' = FALSE
               /\ invocation' =
                      [invocation EXCEPT
                          ![i] = Ended(i, inv.errors \cup heartRate.errors,
                                       Some(step.newState))]
        /\ UNCHANGED <<isHealthKitAvailable, clock, healthKit, refreshes, besideHook>>

\* time passes
Tick ==
    /\ clock < MaxClockHours * MsPerHour
    /\ clock' = clock + MsPerHour
    /\ UNCHANGED <<lastRecoveryState, dailyMetrics, summaries, isLoading, error,
                   isHealthKitAvailable, healthKit, invocation, refreshes, included,
                   besideHook>>

\* the device clock is set back
SetClockBack ==
    /\ clock > 0
    /\ clock' = clock - MsPerHour
    /\ UNCHANGED <<lastRecoveryState, dailyMetrics, summaries, isLoading, error,
                   isHealthKitAvailable, healthKit, invocation, refreshes, included,
                   besideHook>>

\* a workout that has ended is saved to the health store
RecordWorkout ==
    /\ \E w \in RecordedWorkouts \ healthKit.workouts :
           /\ w.endDate <= clock
           /\ healthKit' = [healthKit EXCEPT !.workouts = @ \cup {w}]
    /\ UNCHANGED <<lastRecoveryState, dailyMetrics, summaries, isLoading, error,
                   isHealthKitAvailable, clock, invocation, refreshes, included,
                   besideHook>>

Environment == Tick \/ SetClockBack \/ RecordWorkout

NextHook ==
    \/ \E i \in Invocations, force \in BOOLEAN : Begin(i, force)
    \/ \E i \in Invocations : InitSettles(i)
    \/ \E i \in Invocations : FetchSettles(i)
    \/ \E i \in Invocations : WorkoutsProcessed(i)
    \/ Environment

SpecHook == InitHook /\ [][NextHook]_vars

\* the timers of withTimeout fire and the event loop runs every continuation that is
\* ready
SpecHookFair ==
    /\ SpecHook
    /\ \A i \in Invocations :
           WF_vars(InitSettles(i)) /\ WF_vars(FetchSettles(i)) /\ WF_vars(WorkoutsProcessed(i))

\* refreshes one after another: a single invocation at a time
NextRefresh ==
    \/ \E force \in BOOLEAN : Begin("first", force)
    \/ InitSettles("first")
    \/ FetchSettles("first")
    \/ WorkoutsProcessed("first")
    \/ Environment

SpecRefresh == InitHook /\ [][NextRefresh]_vars

(***************************************************************************)
(* Claims about the hook.                                                  *)
(***************************************************************************)
\* C28: across refreshes that do not overlap, the load of each workout is added to
\* the recovery debt at most once: a workout counted by one refresh is not counted
\* by a later one
C28_LoadAddedOnce == \A u \in Uuids : included[u] <= 1

FetchStages == {"rhr", "sleep", "hrv", "workouts"}

\* the step in which invocation i passes the guard and reaches its first await
PassesGuard(i) == invocation[i].pc # "init" /\ invocation'[i].pc = "init"

\* a step that settles a fetch of invocation i goes on to the next stage, and a fetch
\* that added an entry to errors left an empty result
FetchContinues(i) ==
    LET inv == invocation[i]
        after == invocation'[i]
    IN  (inv.pc \in FetchStages /\ after # inv) =>
            /\ after.pc = NextStage(inv.pc)
            /\ after.errors # inv.errors => after[inv.pc] = <<>>

\* the step that ends the processing of the workouts stores a state, whatever became
\* of the heart-rate fetch
ProcessingStores(i) ==
    (invocation[i].pc = "heartRate" /\ invocation'[i].pc # "heartRate") =>
        /\ invocation'[i].pc = "done"
        /\ IsDefined(invocation'[i].newState)

\* C29: every processNewData invocation that passes the availability guard sets
\* isLoading to true and eventually sets it back to false, also when a HealthKit call
\* never settles; a fetch that fails or times out is replaced by an empty result and
\* the refresh continues
C29_LoadingEnds ==
    /\ [][\A i \in Invocations :
              /\ PassesGuard(i) => isLoading'
              /\ FetchContinues(i)
              /\ ProcessingStores(i)]_vars
    /\ \A i \in Invocations :
           Running(i) ~> (invocation[i].pc = "done" /\ ~isLoading)

\* a refresh whose fetches timed out has run to its end, stored a state and switched
\* the loading flag off
C29_Witness ==
    \E i \in Invocations :
        /\ invocation[i].pc = "done"
        /\ "timedOut" \in invocation[i].errors
        /\ IsDefined(invocation[i].newState)
        /\ ~isLoading

\* invocations i and j have both stored a result, j started while this call of i was
\* running, and nothing was stored between the two starts
Overlapped(i, j) ==
    /\ i # j
    /\ invocation[i].pc = "done" /\ IsDefined(invocation[i].newState)
    /\ invocation[j].pc = "done" /\ IsDefined(invocation[j].newState)
    /\ invocation[i].started > 0 /\ invocation[j].overlaps = invocation[i].started
    /\ invocation[i].lastRecoveryState = invocation[j].lastRecoveryState

\* every state a single refresh can compute from the given snapshot
ResultsFrom(snapshot) ==
    {recalculated[snapshot, newWorkoutSummaries, newDailyMetrics, now].newState :
        newWorkoutSummaries \in SummaryLists, newDailyMetrics \in MetricsChoices,
        now \in Times}

\* the one of the two that stored last
Later(i, j) == IF invocation[i].ended > invocation[j].ended THEN i ELSE j

\* C30: when two processNewData invocations overlap, both compute from the same
\* snapshot of lastRecoveryState and the later store overwrites the earlier: the
\* stored state is the result of one invocation applied to that snapshot, so the
\* overlap adds no workout's load to the stored debt more than once
C30_OverlapStoresOne ==
    \A i, j \in Invocations :
        Overlapped(i, j) =>
            LET snapshot == Get(invocation[i].lastRecoveryState)
            IN  /\ Get(invocation[i].newState) \in ResultsFrom(snapshot)
                /\ Get(invocation[j].newState) \in ResultsFrom(snapshot)
                /\ lastRecoveryState = Get(invocation[Later(i, j)].newState)
                /\ \A u \in Uuids : included[u] <= invocation[i].included[u] + 1

\* two overlapping refreshes have both counted the workout, the stored debt carries
\* its load once, and the store of the first to end has been overwritten
C30_Witness ==
    \E i, j \in Invocations :
        /\ Overlapped(i, j)
        /\ Get(invocation[i].newState) # Get(invocation[j].newState)
        /\ QGt(Get(invocation[i].newState).debtScore, N(0))
        /\ QGt(Get(invocation[j].newState).debtScore, N(0))
        /\ \E u \in Uuids : included[u] = 1

====
